---------------------------- MODULE Spec2Model ----------------------------
(***************************************************************************)
(* Virtual Controller Pak management of N64FlashcartMenu:                  *)
(*   - the session journal (vcpak_state_save / load / clear / is_dirty)    *)
(*     of src/menu/virtual_cpak.c,                                         *)
(*   - the startup recovery protocol of src/menu/views/startup.c and       *)
(*     src/menu/views/vcpak_recovery.c,                                    *)
(*   - the image codec (vcpak_create_empty) of src/menu/virtual_cpak.c.    *)
(* The specifications share the variables: Spec (journal API),             *)
(* SpecRecovery (menu flow at boot), SpecImage (image creation),           *)
(* SpecTransfer (bank transfers), SpecList (pak enumeration),              *)
(* SpecFilename (name generation), SpecDirectory (directory creation),     *)
(* SpecSelect (pak selection view), SpecSaver (screensaver fades).         *)
(***************************************************************************)
EXTENDS Integers, Sequences, FiniteSets, TLC

VARIABLES
    fs,                 \* files of the storage's menu directory: path -> file
    last,               \* the last journal API call: its name, inputs and result
    prev,               \* the journal API call before that (name and result)
    expected,           \* record of the latest successful save since the last clear ({} if none)
    cleared,            \* TRUE from a successful clear until the next save
    cpak,               \* a physical Controller Pak sits in port 1 (has_cpak(0))
    mode,               \* menu->mode
    next_mode,          \* menu->next_mode
    settings,           \* menu->settings (virtual_cpak_enabled, first_run)
    view,               \* statics of vcpak_recovery.c
    step,               \* the last handler that ran in the menu flow, with its inputs
    image,              \* state of the pak image file named by the journal record
    paks,               \* pak image files: path -> sequence of bytes
    created,            \* the last vcpak_create_empty call: path, inputs, result
    device,             \* the Controller Pak of the port: present, its banks
    dump,               \* the pak image file a transfer names: exists, its data
    xfer,               \* the transfer that just ran: inputs, result, context, accesses
    backed,             \* the banks the pak held at the latest successful backup
    gamedir,            \* the game's pak directory: base and game directory exist, entry names
    listing,            \* the last vcpak_list_paks call: inputs, result, out_list
    gen,                \* the last vcpak_generate_filename call: inputs, result, name
    ens,                \* the last vcpak_ensure_game_directory call and the one before
    select,             \* statics of vcpak_select.c and the menu fields the view sets
    sel_step,           \* the last handler that ran in the select view, with its inputs
    ss,                 \* the screensaver_t of screensaver.c (ss)
    ss_hist             \* screensaver calls since the last screensaver_stop request

vars == <<fs, last, prev, expected, cleared, cpak, mode, next_mode,
          settings, view, step, image, paks, created,
          device, dump, xfer, backed, gamedir, listing, gen, ens,
          select, sel_step, ss, ss_hist>>

journalVars  == <<fs, last, prev, expected, cleared>>
recoveryVars == <<cpak, mode, next_mode, settings, view, step, image>>
imageVars    == <<paks, created>>
transferVars == <<device, dump, xfer, backed>>
catalogVars  == <<gamedir, listing, gen, ens>>
selectVars   == <<select, sel_step>>
saverVars    == <<ss, ss_hist>>

-----------------------------------------------------------------------------
(* Bounds of the model *)

\* launch timestamps range over 0 .. NumTimes-1
NumTimes == 1

-----------------------------------------------------------------------------
(* Program constants *)

VCPAK_STATE_MAGIC == 1447252051          \* 0x56435053 "VCPS"
VCPAK_STATE_FILENAME == "vcpak_state.dat"
CPAK_BANK_SIZE == 32768

\* vcpak_err_t
VCPAK_OK == "VCPAK_OK"
VCPAK_ERR_NO_CPAK == "VCPAK_ERR_NO_CPAK"
VCPAK_ERR_IO == "VCPAK_ERR_IO"
VCPAK_ERR_CORRUPTED == "VCPAK_ERR_CORRUPTED"
VCPAK_ERR_FILE_NOT_FOUND == "VCPAK_ERR_FILE_NOT_FOUND"
VCPAK_ERR_ALLOC == "VCPAK_ERR_ALLOC"
VCPAK_ERR_DIR_CREATE == "VCPAK_ERR_DIR_CREATE"
VCPAK_ERR_TOO_LARGE == "VCPAK_ERR_TOO_LARGE"

vcpak_err_t == {VCPAK_OK, VCPAK_ERR_NO_CPAK, VCPAK_ERR_IO, VCPAK_ERR_CORRUPTED,
                VCPAK_ERR_FILE_NOT_FOUND, VCPAK_ERR_ALLOC, VCPAK_ERR_DIR_CREATE,
                VCPAK_ERR_TOO_LARGE}

-----------------------------------------------------------------------------
(* vcpak_state_t: the packed journal record and its byte layout *)

StateFields == <<"magic", "game_code", "game_title", "rom_path", "pak_path",
                 "timestamp", "is_dirty", "reserved">>

\* width in bytes of each member, in declaration order (packed: no padding)
StateWidths == <<4, 5, 21, 256, 256, 4, 1, 30>>

FieldIndex(f) == CHOOSE i \in 1..Len(StateFields) : StateFields[i] = f

RECURSIVE SumTo(_, _)
SumTo(s, n) == IF n = 0 THEN 0 ELSE s[n] + SumTo(s, n - 1)

\* offset one past the last byte of each member
FieldEnds == [f \in {StateFields[i] : i \in 1..Len(StateFields)} |->
                SumTo(StateWidths, FieldIndex(f))]
FieldEnd(f) == FieldEnds[f]

\* sizeof(vcpak_state_t)
SizeofState == SumTo(StateWidths, Len(StateWidths))

\* members held as numbers; the others are character arrays
NumericFields == {"magic", "timestamp", "is_dirty", "reserved"}

\* value standing for a member whose bytes are not (all) in the file
Lost(f) == IF f \in NumericFields THEN -1 ELSE "?"

StoragePrefix == "sd:/"
Games  == {"NSME", "NMKE"}
Titles == {"SUPER MARIO 64"}
Roms   == {"sd:/roms/game.z64"}
PakFiles == {"a.pak", "b.pak"}
PakPath(g, f) == <<StoragePrefix, "cpak_saves", g, f>>

\* records as the header documents them: magic is VCPAK_STATE_MAGIC
Records == [magic : {VCPAK_STATE_MAGIC}, game_code : Games, game_title : Titles,
            rom_path : Roms, pak_path : {PakPath("NSME", f) : f \in PakFiles},
            timestamp : 0..(NumTimes - 1), is_dirty : {0, 1}, reserved : {0}]

\* the first n bytes of the record's memory image, member by member
Prefix(state, n) ==
    [f \in DOMAIN state |-> IF FieldEnd(f) <= n THEN state[f] ELSE Lost(f)]

\* a file of the menu directory: its length and its bytes
MkFile(state, n) == [len |-> n, data |-> Prefix(state, n)]

-----------------------------------------------------------------------------
(* Filesystem primitives (utils/fs.h, libc) on the model's file map *)

file_exists(fsys, path) == path \in DOMAIN fsys

\* fopen(path, "wb") + fwrite + fclose: the file is created or truncated and
\* holds the bytes written
WriteFile(fsys, path, file) ==
    [p \in DOMAIN fsys \cup {path} |-> IF p = path THEN file ELSE fsys[p]]

\* remove(path)
RemoveFile(fsys, path) == [p \in DOMAIN fsys \ {path} |-> fsys[p]]

-----------------------------------------------------------------------------
(* Dirty state management, virtual_cpak.c *)

vcpak_get_state_path(storage_prefix) ==
    <<storage_prefix, "menu", VCPAK_STATE_FILENAME>>

\* The path a journal keyed by game would use.
MutantStatePathPerGame(storage_prefix, state) ==
    <<storage_prefix, "menu", state.game_code, VCPAK_STATE_FILENAME>>

\* Inputs: fopen_ok = fopen(.., "wb") succeeded; nbytes = bytes fwrite put in
\* the file (sizeof(*state) when the one item was written).
\* Result: [ret, fs].
\* fwrite(state, sizeof(state), 1, fp): the size of the pointer, not of the record
MutantSaveSizeofPointer(fsys, storage_prefix, state, fopen_ok, nbytes) ==
    LET state_path == vcpak_get_state_path(storage_prefix)
        written == IF nbytes = SizeofState THEN 1 ELSE 0
    IN  IF ~fopen_ok THEN [ret |-> VCPAK_ERR_IO, fs |-> fsys]
        ELSE [ret |-> IF written # 1 THEN VCPAK_ERR_IO ELSE VCPAK_OK,
              fs  |-> WriteFile(fsys, state_path,
                                MkFile(state, IF written = 1 THEN 4 ELSE 0))]

MutantSavePerGame(fsys, storage_prefix, state, fopen_ok, nbytes) ==
    LET state_path == MutantStatePathPerGame(storage_prefix, state)
        written == IF nbytes = SizeofState THEN 1 ELSE 0
    IN  IF ~fopen_ok THEN [ret |-> VCPAK_ERR_IO, fs |-> fsys]
        ELSE [ret |-> IF written # 1 THEN VCPAK_ERR_IO ELSE VCPAK_OK,
              fs  |-> WriteFile(fsys, state_path, MkFile(state, nbytes))]

vcpak_state_save(fsys, storage_prefix, state, fopen_ok, nbytes) ==
    LET state_path == vcpak_get_state_path(storage_prefix)
        written == IF nbytes = SizeofState THEN 1 ELSE 0
    IN  IF ~fopen_ok THEN [ret |-> VCPAK_ERR_IO, fs |-> fsys]
        ELSE [ret |-> IF written # 1 THEN VCPAK_ERR_IO ELSE VCPAK_OK,
              fs  |-> WriteFile(fsys, state_path, MkFile(state, nbytes))]

\* Inputs: io = "ok", or "fopen" / "fread" for an I/O failure of that call.
\* Result: [ret, state], state = {} when nothing was read into *state.
MutantLoadNoMagicCheck(fsys, storage_prefix, io) ==
    LET state_path == vcpak_get_state_path(storage_prefix) IN
    IF ~file_exists(fsys, state_path)
    THEN [ret |-> VCPAK_ERR_FILE_NOT_FOUND, state |-> {}]
    ELSE IF io = "fopen" THEN [ret |-> VCPAK_ERR_IO, state |-> {}]
    ELSE LET file == fsys[state_path]
             read_count == IF io = "fread" \/ file.len < SizeofState THEN 0 ELSE 1
         IN  IF read_count # 1 THEN [ret |-> VCPAK_ERR_IO, state |-> {}]
             ELSE [ret |-> VCPAK_OK, state |-> {file.data}]

MutantLoadShortAccepted(fsys, storage_prefix, io) ==
    LET state_path == vcpak_get_state_path(storage_prefix) IN
    IF ~file_exists(fsys, state_path)
    THEN [ret |-> VCPAK_ERR_FILE_NOT_FOUND, state |-> {}]
    ELSE IF io = "fopen" THEN [ret |-> VCPAK_ERR_IO, state |-> {}]
    ELSE LET file == fsys[state_path]
             read_count == IF io = "fread" THEN 0 ELSE 1
         IN  IF read_count # 1 THEN [ret |-> VCPAK_ERR_IO, state |-> {}]
             ELSE IF file.data.magic # VCPAK_STATE_MAGIC
                  THEN [ret |-> VCPAK_ERR_CORRUPTED, state |-> {file.data}]
                  ELSE [ret |-> VCPAK_OK, state |-> {file.data}]

vcpak_state_load(fsys, storage_prefix, io) ==
    LET state_path == vcpak_get_state_path(storage_prefix) IN
    IF ~file_exists(fsys, state_path)
    THEN [ret |-> VCPAK_ERR_FILE_NOT_FOUND, state |-> {}]
    ELSE IF io = "fopen" THEN [ret |-> VCPAK_ERR_IO, state |-> {}]
    ELSE LET file == fsys[state_path]
             read_count == IF io = "fread" \/ file.len < SizeofState THEN 0 ELSE 1
         IN  IF read_count # 1 THEN [ret |-> VCPAK_ERR_IO, state |-> {}]
             ELSE IF file.data.magic # VCPAK_STATE_MAGIC
                  THEN [ret |-> VCPAK_ERR_CORRUPTED, state |-> {file.data}]
                  ELSE [ret |-> VCPAK_OK, state |-> {file.data}]

\* Input: remove_ok = remove(state_path) succeeds when it is called.
\* Result: [ret, fs].
\* reports success without removing the file
MutantClearKeepsFile(fsys, storage_prefix, remove_ok) ==
    [ret |-> VCPAK_OK, fs |-> fsys]

\* remove() called without the file_exists test: a missing file is an error
MutantClearMissingFails(fsys, storage_prefix, remove_ok) ==
    LET state_path == vcpak_get_state_path(storage_prefix) IN
    IF ~file_exists(fsys, state_path) \/ ~remove_ok
    THEN [ret |-> VCPAK_ERR_IO, fs |-> fsys]
    ELSE [ret |-> VCPAK_OK, fs |-> RemoveFile(fsys, state_path)]

vcpak_state_clear(fsys, storage_prefix, remove_ok) ==
    LET state_path == vcpak_get_state_path(storage_prefix) IN
    IF file_exists(fsys, state_path)
    THEN IF ~remove_ok THEN [ret |-> VCPAK_ERR_IO, fs |-> fsys]
         ELSE [ret |-> VCPAK_OK, fs |-> RemoveFile(fsys, state_path)]
    ELSE [ret |-> VCPAK_OK, fs |-> fsys]

MutantIsDirtyIgnoresFlag(fsys, storage_prefix, io) ==
    vcpak_state_load(fsys, storage_prefix, io).ret = VCPAK_OK

vcpak_state_is_dirty(fsys, storage_prefix, io) ==
    LET r == vcpak_state_load(fsys, storage_prefix, io) IN
    IF r.ret # VCPAK_OK THEN FALSE
    ELSE \E state \in r.state : state.is_dirty # 0

-----------------------------------------------------------------------------
(* The journal API as a state machine (specification Spec) *)

EmptyFs == [p \in {} |-> 0]

StatePath == vcpak_get_state_path(StoragePrefix)

\* I/O outcomes the calls can meet
LoadIo == {"ok", "fopen", "fread"}
\* byte counts a failed fwrite can leave in the file: nothing, or everything
\* up to and including is_dirty
ShortWrites == {0, FieldEnd("is_dirty")}
\* values a damaged magic member can hold
BadMagics == {0, VCPAK_STATE_MAGIC + 1}

NoCall == [op |-> "none", ret |-> VCPAK_OK, arg |-> {}, out |-> {},
           dirty |-> FALSE, io |-> "ok"]

\* nothing ran yet in the menu flow; recoveries: the times the recovery
\* view was entered since boot
NoStep == [name |-> "none", enter |-> FALSE, back |-> FALSE,
           dirty_before |-> FALSE, has_cpak |-> FALSE, found |-> FALSE,
           backup |-> "none", result_shown |-> FALSE,
           from |-> "MENU_MODE_NONE", recoveries |-> 0]

IdleRecovery ==
    /\ cpak = FALSE
    /\ mode = "MENU_MODE_NONE"
    /\ next_mode = "MENU_MODE_NONE"
    /\ settings = [virtual_cpak_enabled |-> FALSE, first_run |-> FALSE,
                   rom_autoload_enabled |-> FALSE]
    /\ view = [state_loaded |-> FALSE, show_backing_up |-> FALSE,
               show_backup_result |-> FALSE, backup_success |-> FALSE,
               no_physical_pak |-> FALSE, dirty_state |-> {}]
    /\ step = NoStep
    /\ image = "stale"

\* no image was created yet
NoCreate == [path |-> <<>>, ret |-> "none", malloc_ok |-> TRUE, fopen_ok |-> TRUE,
             written |-> 0, before |-> << >>]

\* cpak_io_context_t as memset by a transfer before it starts
NoCtx == [failed_bank |-> -1, total_banks |-> 0, device_banks |-> 0,
          filesize |-> 0, bytes_expected |-> 0, bytes_actual |-> 0,
          error_code |-> 0]

\* a transfer that meets no fault; probe_ok: cpak_probe_banks reports the
\* device's bank count; fail_bank: the bank whose transfer fails (-1: none)
NoFault == [malloc_ok |-> TRUE, fopen_ok |-> TRUE, fseek_ok |-> TRUE,
            ftell_ok |-> TRUE, probe_ok |-> TRUE, fail_bank |-> -1,
            fail_kind |-> "none"]

\* no transfer ran yet
NoXfer == [op |-> "none", via |-> "none", f |-> NoFault, err |-> "none",
           ret |-> "none", ctx |-> NoCtx, log |-> << >>, calls |-> << >>,
           message |-> [text |-> "", bank |-> -1, actual |-> -1,
                        expected |-> -1, code |-> 0],
           device_before |-> [present |-> FALSE, banks |-> << >>],
           dump_before |-> [exists |-> FALSE, data |-> << >>]]

IdleTransfer ==
    /\ device = [present |-> FALSE, banks |-> << >>]
    /\ dump = [exists |-> FALSE, data |-> << >>]
    /\ xfer = NoXfer
    /\ backed = << >>

\* vcpak_list_t holding nothing (as vcpak_list_free leaves it)
NoList == [entries |-> << >>, entries_null |-> TRUE, count |-> 0,
           selected |-> -1, game_code |-> << >>]

\* a vcpak_list_paks call that meets no fault; realloc_fail_at: the capacity
\* the realloc to which fails (0: none)
ListNoFault == [malloc_ok |-> TRUE, realloc_fail_at |-> 0]

\* a storage without directories: dirs are the directories that exist,
\* names the entries dir_findfirst / dir_findnext yield for the game's
\* directory, in this order (none: dir_findfirst returns a negative value)
NoDir == [dirs |-> {}, names |-> << >>]

\* no catalog call ran yet
NoListing == [called |-> FALSE, ret |-> "none", out |-> NoList,
              game_code |-> << >>, last_used |-> << >>, f |-> ListNoFault]
NoGen == [called |-> FALSE, ret |-> "none", name |-> << >>, game_code |-> << >>,
          game_title |-> << >>, now |-> 0, clean_title |-> << >>,
          last_read |-> -1]
NoEns == [called |-> FALSE, ret |-> "none", game_code |-> << >>,
          base_create_ok |-> TRUE, game_create_ok |-> TRUE,
          before |-> NoDir, creates |-> << >>,
          prev |-> [called |-> FALSE, ret |-> "none", game_code |-> << >>,
                    base_create_ok |-> TRUE, game_create_ok |-> TRUE,
                    creates |-> << >>]]

\* menu->actions with no button pressed
NoActions == [enter |-> FALSE, back |-> FALSE, go_up |-> FALSE,
              go_down |-> FALSE, options |-> FALSE]

\* the select view before view_vcpak_select_init: its statics, and the
\* fields of menu it sets (load.vcpak_*, load_pending.rom_file, next_mode);
\* last_cpak_file is load.rom_info.settings.last_cpak_file
NoSelect == [pak_list |-> NoList, scroll_offset |-> 0,
             show_no_cpak_warning |-> FALSE, show_delete_confirm |-> FALSE,
             show_creating_pak |-> FALSE, show_create_error |-> FALSE,
             create_error_message |-> [text |-> "", code |-> "none"],
             new_pak_filename |-> << >>, new_pak_full_path |-> << >>,
             vcpak_enabled |-> FALSE, vcpak_selected |-> << >>,
             vcpak_no_physical |-> FALSE, load_pending_rom_file |-> FALSE,
             next_mode |-> "MENU_MODE_NONE", last_cpak_file |-> << >>]

\* no handler of the select view ran yet. branch: the branch of process
\* taken; sel, list_before: selection and list when the handler started;
\* removed: the path remove() was called on; scan: the vcpak_list_paks call
\* of the handler; ensure_ret, create_ret, create_path: the calls of the
\* create-new branch
NoSelStep == [name |-> "none", branch |-> "none", sel |-> -1, list_before |-> NoList, removed |-> << >>,
              remove_ok |-> FALSE, edits |-> 0,
              scan |-> [called |-> FALSE, ret |-> "none", f |-> ListNoFault],
              ensure_ret |-> "none", create_ret |-> "none",
              create_path |-> << >>]

IdleSelect ==
    /\ select = NoSelect
    /\ sel_step = NoSelStep

\* ss == NULL: before screensaver_init and after screensaver_deinit.
\* fade_alpha is the float in units of 2^-28
NoSaver == [allocated |-> FALSE, active |-> FALSE, fading_in |-> FALSE,
            fading_out |-> FALSE, fade_alpha |-> 0]

\* no screensaver_stop request is on record. stop_requested: screensaver_stop
\* was called on an active screensaver since it last became active;
\* updates: screensaver_update calls since that request while it was active;
\* start_during_fade, timeout_during_fade: a screensaver_start call, an
\* update with the idle time at the timeout, arrived while it was still
\* active after the request; alpha_at_stop: fade_alpha at the request;
\* halted: the program stopped on a NULL access
NoSaverHist == [stop_requested |-> FALSE, updates |-> 0,
                start_during_fade |-> FALSE, timeout_during_fade |-> FALSE,
                alpha_at_stop |-> 0, halted |-> FALSE]

IdleSaver ==
    /\ ss = NoSaver
    /\ ss_hist = NoSaverHist

IdleCatalog ==
    /\ gamedir = NoDir
    /\ listing = NoListing
    /\ gen = NoGen
    /\ ens = NoEns

IdleImage ==
    /\ paks = EmptyFs
    /\ created = NoCreate

IdleJournal ==
    /\ last = NoCall
    /\ prev = NoCall
    /\ expected = {}
    /\ cleared = FALSE

\* a storage on which no journal was ever written
Init ==
    /\ fs = EmptyFs
    /\ IdleJournal
    /\ IdleRecovery
    /\ IdleImage
    /\ IdleSelect
    /\ IdleSaver
    /\ IdleTransfer
    /\ IdleCatalog

Shift == prev' = [NoCall EXCEPT !.op = last.op, !.ret = last.ret,
                                !.arg = IF last.ret = VCPAK_OK THEN last.arg ELSE {}]

\* write_before_session: vcpak_state_save(storage_prefix, &state)
StateSave(state, fopen_ok, nbytes) ==
    LET r == vcpak_state_save(fs, StoragePrefix, state, fopen_ok, nbytes) IN
    /\ fs' = r.fs
    /\ last' = [NoCall EXCEPT !.op = "save", !.ret = r.ret, !.arg = {state},
                              !.io = IF ~fopen_ok THEN "fopen"
                                     ELSE IF nbytes # SizeofState THEN "fwrite"
                                     ELSE "ok"]
    /\ Shift
    /\ expected' = IF r.ret = VCPAK_OK THEN {state}
                   ELSE IF fopen_ok THEN {} ELSE expected
    /\ cleared' = IF fopen_ok THEN FALSE ELSE cleared
    /\ UNCHANGED <<recoveryVars, imageVars, transferVars, catalogVars, selectVars, saverVars>>

\* load: vcpak_state_load(storage_prefix, &state)
StateLoad(io) ==
    LET r == vcpak_state_load(fs, StoragePrefix, io) IN
    /\ last' = [NoCall EXCEPT !.op = "load", !.ret = r.ret, !.out = r.state,
                              !.io = io]
    /\ Shift
    /\ UNCHANGED <<fs, expected, cleared, recoveryVars, imageVars, transferVars, catalogVars, selectVars, saverVars>>

\* clear: vcpak_state_clear(storage_prefix)
StateClear(remove_ok) ==
    LET r == vcpak_state_clear(fs, StoragePrefix, remove_ok) IN
    /\ fs' = r.fs
    /\ last' = [NoCall EXCEPT !.op = "clear", !.ret = r.ret,
                              !.io = IF remove_ok THEN "ok" ELSE "remove"]
    /\ Shift
    /\ expected' = IF r.ret = VCPAK_OK THEN {} ELSE expected
    /\ cleared' = IF r.ret = VCPAK_OK THEN TRUE ELSE cleared
    /\ UNCHANGED <<recoveryVars, imageVars, transferVars, catalogVars, selectVars, saverVars>>

\* vcpak_state_is_dirty(storage_prefix)
StateIsDirty(io) ==
    /\ last' = [NoCall EXCEPT !.op = "is_dirty", !.io = io,
                   !.dirty = vcpak_state_is_dirty(fs, StoragePrefix, io)]
    /\ Shift
    /\ UNCHANGED <<fs, expected, cleared, recoveryVars, imageVars, transferVars, catalogVars, selectVars, saverVars>>

\* the storage medium damages the magic member of a journal file
StorageDamagesMagic(p, m) ==
    /\ p \in DOMAIN fs
    /\ fs[p].len >= FieldEnd("magic")
    /\ fs[p].data.magic # m
    /\ fs' = [fs EXCEPT ![p].data.magic = m]
    /\ last' = [NoCall EXCEPT !.op = "damage"]
    /\ Shift
    /\ expected' = {}
    /\ UNCHANGED <<cleared, recoveryVars, imageVars, transferVars, catalogVars, selectVars, saverVars>>

Next ==
    \/ \E state \in Records, nbytes \in ShortWrites \cup {SizeofState} :
            StateSave(state, TRUE, nbytes)
    \/ \E state \in Records : StateSave(state, FALSE, 0)
    \/ \E io \in LoadIo : StateLoad(io)
    \/ \E remove_ok \in BOOLEAN : StateClear(remove_ok)
    \/ \E io \in LoadIo : StateIsDirty(io)
    \/ \E p \in DOMAIN fs, m \in BadMagics : StorageDamagesMagic(p, m)

Spec == Init /\ [][Next]_vars

-----------------------------------------------------------------------------
(* Backup of the physical pak, virtual_cpak.c and utils/cpakfs_utils.h *)

\* cpak_io_err_t results of a backup
CPAK_IO_OK == "CPAK_IO_OK"
CPAK_IO_ERR_NO_PAK == "CPAK_IO_ERR_NO_PAK"
CPAK_IO_ERR_ALLOC == "CPAK_IO_ERR_ALLOC"
CPAK_IO_ERR_FILE_OPEN == "CPAK_IO_ERR_FILE_OPEN"
CPAK_IO_ERR_FILE_WRITE == "CPAK_IO_ERR_FILE_WRITE"
CPAK_IO_ERR_PAK_READ == "CPAK_IO_ERR_PAK_READ"
CPAK_IO_ERR_FILE_READ == "CPAK_IO_ERR_FILE_READ"
CPAK_IO_ERR_FILE_SEEK == "CPAK_IO_ERR_FILE_SEEK"
CPAK_IO_ERR_FILE_FTELL == "CPAK_IO_ERR_FILE_FTELL"
CPAK_IO_ERR_PROBE_BANKS == "CPAK_IO_ERR_PROBE_BANKS"
CPAK_IO_ERR_TOO_LARGE == "CPAK_IO_ERR_TOO_LARGE"
CPAK_IO_ERR_PAK_WRITE == "CPAK_IO_ERR_PAK_WRITE"

\* what a backup can meet once a pak is present
BackupOutcomes == {CPAK_IO_OK, CPAK_IO_ERR_ALLOC, CPAK_IO_ERR_FILE_OPEN,
                   CPAK_IO_ERR_PAK_READ, CPAK_IO_ERR_FILE_WRITE}

\* has_cpak(0)
has_cpak(present) == present

\* cpak_backup_to_file(controller, filepath, &ctx): requires a pak in the
\* port, then reads the banks and writes them to the file. `outcome` is what
\* the transfer meets. Result: [err, image], image the state of the file.
cpak_backup_to_file(present, img, outcome) ==
    IF ~has_cpak(present) THEN [err |-> CPAK_IO_ERR_NO_PAK, image |-> img]
    ELSE [err |-> outcome,
          image |-> IF outcome = CPAK_IO_OK THEN "backed_up"
                    ELSE IF outcome \in {CPAK_IO_ERR_PAK_READ, CPAK_IO_ERR_FILE_WRITE}
                         THEN "truncated"
                    ELSE img]

\* returns VCPAK_OK for CPAK_IO_ERR_PAK_READ
MutantBackupOkIsIo(err) ==
    CASE err = CPAK_IO_ERR_NO_PAK -> VCPAK_ERR_NO_CPAK
      [] err = CPAK_IO_ERR_ALLOC -> VCPAK_ERR_ALLOC
      [] OTHER -> VCPAK_ERR_IO

\* returns VCPAK_OK for CPAK_IO_ERR_PAK_READ
MutantBackupReadIsOk(err) ==
    CASE err = CPAK_IO_OK -> VCPAK_OK
      [] err = CPAK_IO_ERR_PAK_READ -> VCPAK_OK
      [] err = CPAK_IO_ERR_NO_PAK -> VCPAK_ERR_NO_CPAK
      [] err = CPAK_IO_ERR_ALLOC -> VCPAK_ERR_ALLOC
      [] OTHER -> VCPAK_ERR_IO

\* the switch (err) of vcpak_backup_from_physical
vcpak_backup_err(err) ==
    CASE err = CPAK_IO_OK -> VCPAK_OK
      [] err = CPAK_IO_ERR_NO_PAK -> VCPAK_ERR_NO_CPAK
      [] err = CPAK_IO_ERR_ALLOC -> VCPAK_ERR_ALLOC
      [] err = CPAK_IO_ERR_FILE_OPEN -> VCPAK_ERR_IO
      [] err = CPAK_IO_ERR_PAK_READ -> VCPAK_ERR_IO
      [] err = CPAK_IO_ERR_FILE_WRITE -> VCPAK_ERR_IO
      [] OTHER -> VCPAK_ERR_IO

\* vcpak_backup_from_physical(pak_path, 0). Result: [ret, image].
vcpak_backup_from_physical(present, img, outcome) ==
    LET r == cpak_backup_to_file(present, img, outcome) IN
    [ret |-> vcpak_backup_err(r.err), image |-> r.image]

-----------------------------------------------------------------------------
(* Startup and the recovery view (specification SpecRecovery) *)

MENU_MODE_NONE == "MENU_MODE_NONE"
MENU_MODE_STARTUP == "MENU_MODE_STARTUP"
MENU_MODE_VCPAK_RECOVERY == "MENU_MODE_VCPAK_RECOVERY"
MENU_MODE_BROWSER == "MENU_MODE_BROWSER"
MENU_MODE_CREDITS == "MENU_MODE_CREDITS"
MENU_MODE_LOAD_ROM == "MENU_MODE_LOAD_ROM"

\* the modes startup hands over to for normal operation
NormalModes == {MENU_MODE_BROWSER, MENU_MODE_CREDITS, MENU_MODE_LOAD_ROM}

\* the journal on storage is a loadable record with is_dirty set
Dirty(fsys) == vcpak_state_is_dirty(fsys, StoragePrefix, "ok")

\* journal files a boot can find: none, a complete record, a truncated one,
\* one with a damaged magic
BootFiles ==
    {MkFile(r, SizeofState) : r \in Records}
      \cup {MkFile(r, FieldEnd("is_dirty")) : r \in {x \in Records : x.is_dirty = 1}}
      \cup {MkFile([r EXCEPT !.magic = 0], SizeofState) :
               r \in {x \in Records : x.is_dirty = 1}}

InitRecovery ==
    /\ fs \in {EmptyFs} \cup {WriteFile(EmptyFs, StatePath, f) : f \in BootFiles}
    /\ IdleJournal
    /\ cpak \in BOOLEAN
    /\ mode = MENU_MODE_NONE
    /\ next_mode = MENU_MODE_STARTUP
    /\ settings \in [virtual_cpak_enabled : BOOLEAN, first_run : BOOLEAN,
                     rom_autoload_enabled : BOOLEAN]
    /\ view = [state_loaded |-> FALSE, show_backing_up |-> FALSE,
               show_backup_result |-> FALSE, backup_success |-> FALSE,
               no_physical_pak |-> FALSE, dirty_state |-> {}]
    /\ step = NoStep
    /\ image = "stale"
    /\ IdleImage
    /\ IdleSelect
    /\ IdleSaver
    /\ IdleTransfer
    /\ IdleCatalog

\* The dirty-state check that opens view_startup_init (startup.c:17-40).
\* Result: [fs, image, recovery, found, backup]: recovery = the function set
\* next_mode to MENU_MODE_VCPAK_RECOVERY and returned; found = a dirty record
\* was loaded; backup = result of the auto-backup ("none" if not run).
StartupDirtyCheck(fsys, set, present, img, io, outcome, remove_ok) ==
    LET l == vcpak_state_load(fsys, StoragePrefix, io)
        nothing == [fs |-> fsys, image |-> img, recovery |-> FALSE,
                    found |-> FALSE, backup |-> "none"]
    IN
    IF ~set.virtual_cpak_enabled THEN nothing
    ELSE IF l.ret = VCPAK_OK /\ (\E dirty_state \in l.state : dirty_state.is_dirty # 0)
    THEN IF has_cpak(present)
         THEN LET b == vcpak_backup_from_physical(present, img, outcome) IN
              \* the state is cleared whatever err is
              [fs |-> vcpak_state_clear(fsys, StoragePrefix, remove_ok).fs,
               image |-> b.image, recovery |-> FALSE, found |-> TRUE,
               backup |-> b.ret]
         ELSE [fs |-> fsys, image |-> img, recovery |-> TRUE, found |-> TRUE,
               backup |-> "none"]
    ELSE nothing

\* view_startup_init(menu), run by the menu loop when next_mode is STARTUP.
\* Inputs: the I/O outcome of the load, the outcome of the backup, whether
\* remove() succeeds, whether Start is held on a controller.
ViewStartupInit(io, outcome, remove_ok, start_held) ==
    /\ next_mode = MENU_MODE_STARTUP
    /\ mode # MENU_MODE_STARTUP
    /\ LET d == StartupDirtyCheck(fs, settings, cpak, image, io, outcome, remove_ok)
           autoload == settings.rom_autoload_enabled /\ ~start_held
       IN
       /\ fs' = d.fs
       /\ image' = d.image
       /\ mode' = MENU_MODE_STARTUP
       /\ step' = [NoStep EXCEPT !.recoveries = step.recoveries, !.name = "view_startup_init", !.from = mode,
                                 !.dirty_before = Dirty(fs),
                                 !.has_cpak = cpak,
                                 !.found = d.found,
                                 !.backup = d.backup]
       /\ IF d.recovery
          THEN /\ next_mode' = MENU_MODE_VCPAK_RECOVERY
               /\ UNCHANGED settings
          ELSE IF autoload
          THEN /\ next_mode' = MENU_MODE_LOAD_ROM
               /\ UNCHANGED settings
          ELSE /\ next_mode' = IF settings.first_run THEN MENU_MODE_CREDITS
                               ELSE MENU_MODE_BROWSER
               /\ settings' = [settings EXCEPT !.first_run = FALSE,
                                               !.rom_autoload_enabled = FALSE]
    /\ UNCHANGED <<last, prev, expected, cleared, cpak, view, imageVars, transferVars, catalogVars, selectVars, saverVars>>

\* entries of the recovery view followed in one boot
MaxRecoveries == 2

\* view_vcpak_recovery_init(menu)
ViewVcpakRecoveryInit(io) ==
    /\ next_mode = MENU_MODE_VCPAK_RECOVERY
    /\ mode # MENU_MODE_VCPAK_RECOVERY
    /\ step.recoveries < MaxRecoveries
    /\ LET l == vcpak_state_load(fs, StoragePrefix, io)
           fresh == [state_loaded |-> FALSE, show_backing_up |-> FALSE,
                     show_backup_result |-> FALSE, backup_success |-> FALSE,
                     no_physical_pak |-> FALSE, dirty_state |-> view.dirty_state]
       IN
       /\ mode' = MENU_MODE_VCPAK_RECOVERY
       /\ IF l.ret = VCPAK_OK
          THEN /\ view' = [fresh EXCEPT !.state_loaded = TRUE,
                                        !.dirty_state = l.state,
                                        !.no_physical_pak = ~has_cpak(cpak)]
               /\ UNCHANGED next_mode
          ELSE /\ view' = [fresh EXCEPT !.dirty_state = l.state]
               /\ next_mode' = MENU_MODE_STARTUP
       /\ step' = [NoStep EXCEPT !.recoveries = step.recoveries + 1,
                                 !.name = "view_vcpak_recovery_init", !.from = mode,
                                 !.dirty_before = Dirty(fs),
                                 !.has_cpak = cpak]
    /\ UNCHANGED <<fs, last, prev, expected, cleared, cpak, settings, image, imageVars, transferVars, catalogVars, selectVars, saverVars>>

\* process(menu) of vcpak_recovery.c. Result: [fs, view, next_mode].
process(fsys, v, nm, enter, back, remove_ok) ==
    LET same == [fs |-> fsys, view |-> v, next_mode |-> nm]
        clear_and_leave == [fs |-> vcpak_state_clear(fsys, StoragePrefix, remove_ok).fs,
                            view |-> v, next_mode |-> MENU_MODE_STARTUP]
    IN
    IF v.show_backup_result
    THEN IF enter \/ back THEN clear_and_leave ELSE same
    ELSE IF v.show_backing_up THEN same
    ELSE IF enter
    THEN IF v.no_physical_pak
         THEN [same EXCEPT !.view = [v EXCEPT !.backup_success = FALSE,
                                              !.show_backup_result = TRUE]]
         ELSE [same EXCEPT !.view = [v EXCEPT !.show_backing_up = TRUE]]
    ELSE IF back THEN clear_and_leave
    ELSE same

\* draw(menu, d) of vcpak_recovery.c: the backup runs here, in the frame that
\* shows the "Backing up" box. Result: [view, image, backup].
draw(v, present, img, outcome) ==
    IF v.show_backing_up
    THEN LET b == vcpak_backup_from_physical(present, img, outcome) IN
         [view |-> [v EXCEPT !.backup_success = (b.ret = VCPAK_OK),
                             !.show_backing_up = FALSE,
                             !.show_backup_result = TRUE],
          image |-> b.image, backup |-> b.ret]
    ELSE [view |-> v, image |-> img, backup |-> "none"]

\* view_vcpak_recovery_display(menu, display): process, then draw.
\* Inputs: menu->actions.enter / back of the frame, the backup outcome,
\* whether remove() succeeds.
ViewVcpakRecoveryDisplay(enter, back, outcome, remove_ok) ==
    /\ mode = MENU_MODE_VCPAK_RECOVERY
    /\ next_mode = MENU_MODE_VCPAK_RECOVERY
    /\ LET p == process(fs, view, next_mode, enter, back, remove_ok)
           d == draw(p.view, cpak, image, outcome)
       IN
       /\ fs' = p.fs
       /\ next_mode' = p.next_mode
       /\ view' = d.view
       /\ image' = d.image
       /\ step' = [NoStep EXCEPT !.recoveries = step.recoveries, !.name = "view_vcpak_recovery_display", !.from = mode,
                                 !.enter = enter, !.back = back,
                                 !.dirty_before = Dirty(fs),
                                 !.has_cpak = cpak,
                                 !.backup = d.backup,
                                 !.result_shown = view.show_backup_result]
    /\ UNCHANGED <<last, prev, expected, cleared, cpak, mode, settings, imageVars, transferVars, catalogVars, selectVars, saverVars>>

\* the menu loop enters the view startup selected for normal operation
EnterNormalMode ==
    /\ next_mode \in NormalModes
    /\ mode # next_mode
    /\ mode' = next_mode
    /\ step' = [NoStep EXCEPT !.recoveries = step.recoveries, !.name = "normal", !.from = mode, !.dirty_before = Dirty(fs),
                              !.has_cpak = cpak]
    /\ UNCHANGED <<journalVars, cpak, next_mode, settings, view, image, imageVars, transferVars, catalogVars, selectVars, saverVars>>

\* the user inserts or pulls the Controller Pak of port 1
PakInserted ==
    /\ ~cpak
    /\ mode \notin NormalModes
    /\ cpak' = TRUE
    /\ step' = [NoStep EXCEPT !.recoveries = step.recoveries, !.name = "pak_inserted", !.from = mode, !.dirty_before = Dirty(fs),
                              !.has_cpak = TRUE]
    /\ UNCHANGED <<journalVars, mode, next_mode, settings, view, image, imageVars, transferVars, catalogVars, selectVars, saverVars>>

PakRemoved ==
    /\ cpak
    /\ mode \notin NormalModes
    /\ cpak' = FALSE
    /\ step' = [NoStep EXCEPT !.recoveries = step.recoveries, !.name = "pak_removed", !.from = mode, !.dirty_before = Dirty(fs),
                              !.has_cpak = FALSE]
    /\ UNCHANGED <<journalVars, mode, next_mode, settings, view, image, imageVars, transferVars, catalogVars, selectVars, saverVars>>

NextRecovery ==
    \/ \E io \in LoadIo, outcome \in BackupOutcomes, remove_ok \in BOOLEAN,
          start_held \in BOOLEAN :
            ViewStartupInit(io, outcome, remove_ok, start_held)
    \/ \E io \in LoadIo : ViewVcpakRecoveryInit(io)
    \/ \E enter \in BOOLEAN, back \in BOOLEAN, outcome \in BackupOutcomes,
          remove_ok \in BOOLEAN :
            ViewVcpakRecoveryDisplay(enter, back, outcome, remove_ok)
    \/ EnterNormalMode
    \/ PakInserted
    \/ PakRemoved

SpecRecovery == InitRecovery /\ [][NextRecovery]_vars


-----------------------------------------------------------------------------
(* Recovery properties (specification SpecRecovery) *)

\* C1 as stated: when startup finds a Dirty journal and a pak in the port,
\* the journal is cleared only if the backup to the recorded image path
\* succeeded: after a failed backup the record is still there, Dirty.
C1_ClearedOnlyAfterBackup ==
    (step.name = "view_startup_init" /\ step.found /\ step.has_cpak
        /\ step.backup # VCPAK_OK) => Dirty(fs)

\* What holds of a Dirty journal found without a pak in the port: startup
\* leaves it Dirty and, once it has loaded the record, selects the recovery
\* view; the recovery view clears it only in a frame in which the user
\* pressed A or B.
NoPakStartupKeepsJournal ==
    /\ (step.name = "view_startup_init" /\ step.dirty_before /\ ~step.has_cpak)
          => Dirty(fs)
    /\ (step.name = "view_startup_init" /\ step.found /\ ~step.has_cpak)
          => next_mode = MENU_MODE_VCPAK_RECOVERY
    /\ (step.name = "view_vcpak_recovery_display" /\ step.dirty_before /\ ~Dirty(fs))
          => (step.enter \/ step.back)

\* C2 as stated: once startup has found the Dirty journal without a pak in
\* the port and handed over to the recovery view, the record stays Dirty
\* until a backup from a reinserted pak succeeds or the user confirms, with
\* A or B in the recovery view, that it may go. (The recovery view is
\* entered only from the no-pak branch of startup.)
C2_DirtyUntilBackupOrDiscard ==
    (step.from = MENU_MODE_VCPAK_RECOVERY /\ step.dirty_before /\ ~Dirty(fs)) =>
        \/ step.backup = VCPAK_OK
        \/ /\ step.name = "view_vcpak_recovery_display"
           /\ (step.enter \/ step.back)

-----------------------------------------------------------------------------
(* Journal properties (specification Spec) *)

JournalFileExists == file_exists(fs, StatePath)
JournalFile == fs[StatePath]

\* C3: journal round trip. After vcpak_state_save(r) returned VCPAK_OK, the
\* file is a complete record carrying the magic constant, and a load that
\* meets no I/O failure returns VCPAK_OK with a record equal to r in every
\* member; a load call made right after the save reports exactly that.
C3_SaveLoadRoundTrip ==
    /\ (last.op = "save" /\ last.ret = VCPAK_OK) =>
         /\ JournalFileExists
         /\ JournalFile.len = SizeofState
         /\ JournalFile.data.magic = VCPAK_STATE_MAGIC
         /\ LET l == vcpak_state_load(fs, StoragePrefix, "ok") IN
              /\ l.ret = VCPAK_OK
              /\ \A r \in last.arg : \A s \in l.state : \A f \in DOMAIN r :
                    s[f] = r[f]
              /\ l.state # {}
    /\ (last.op = "load" /\ last.io = "ok" /\ prev.op = "save"
          /\ prev.ret = VCPAK_OK) =>
         (last.ret = VCPAK_OK /\ last.out = prev.arg)

C3_Witness ==
    /\ last.op = "load" /\ last.io = "ok" /\ last.ret = VCPAK_OK
    /\ prev.op = "save" /\ prev.ret = VCPAK_OK
    /\ \E r \in last.out : r.is_dirty = 1 /\ r.game_code = "NMKE"

BadMagicFile ==
    /\ JournalFileExists
    /\ JournalFile.len >= FieldEnd("magic")
    /\ JournalFile.data.magic # VCPAK_STATE_MAGIC

\* C4: a journal file whose magic differs from VCPAK_STATE_MAGIC is never
\* loaded with success, whatever its other members hold and whatever I/O
\* outcome the call meets; a complete such file read without I/O failure
\* yields VCPAK_ERR_CORRUPTED.
C4_BadMagicNeverAccepted ==
    BadMagicFile =>
        /\ \A io \in LoadIo : vcpak_state_load(fs, StoragePrefix, io).ret # VCPAK_OK
        /\ JournalFile.len = SizeofState =>
              vcpak_state_load(fs, StoragePrefix, "ok").ret = VCPAK_ERR_CORRUPTED
        /\ last.op = "load" => last.ret # VCPAK_OK
        /\ (last.op = "load" /\ last.io = "ok" /\ JournalFile.len = SizeofState)
              => last.ret = VCPAK_ERR_CORRUPTED

C4_Witness ==
    /\ BadMagicFile
    /\ JournalFile.len = SizeofState
    /\ JournalFile.data.is_dirty = 1
    /\ last.op = "load" /\ last.io = "ok" /\ last.ret = VCPAK_ERR_CORRUPTED

ShortFile == JournalFileExists /\ JournalFile.len < SizeofState

\* C5 as stated: loading a journal file shorter than the record fails with
\* VCPAK_ERR_CORRUPTED.
C5_ShortReadIsCorrupted ==
    ShortFile => vcpak_state_load(fs, StoragePrefix, "ok").ret = VCPAK_ERR_CORRUPTED

\* C5 amended: loading a journal file shorter than the record never returns
\* success; it fails with VCPAK_ERR_IO (the fread count is not 1), under every
\* I/O outcome and whatever the bytes present hold.
C5_ShortReadIsIoError ==
    ShortFile =>
        /\ \A io \in LoadIo : vcpak_state_load(fs, StoragePrefix, io).ret = VCPAK_ERR_IO
        /\ last.op = "load" => last.ret = VCPAK_ERR_IO

C5_Witness ==
    /\ ShortFile
    /\ JournalFile.len = FieldEnd("is_dirty")
    /\ JournalFile.data.magic = VCPAK_STATE_MAGIC
    /\ last.op = "load" /\ last.io = "ok" /\ last.ret = VCPAK_ERR_IO

\* C6: from a successful vcpak_state_clear until the next save, no journal
\* file exists (the Clean state) and every load fails with
\* VCPAK_ERR_FILE_NOT_FOUND.
C6_ClearThenLoadNotFound ==
    cleared =>
        /\ ~JournalFileExists
        /\ \A io \in LoadIo :
              vcpak_state_load(fs, StoragePrefix, io).ret = VCPAK_ERR_FILE_NOT_FOUND
        /\ last.op = "load" => last.ret = VCPAK_ERR_FILE_NOT_FOUND

C6_Witness ==
    /\ cleared
    /\ last.op = "load" /\ last.ret = VCPAK_ERR_FILE_NOT_FOUND
    /\ prev.op = "clear" /\ prev.ret = VCPAK_OK

\* C7: clear is idempotent. With no journal file it returns VCPAK_OK and
\* leaves the storage as it is; a clear that follows a successful clear
\* returns VCPAK_OK and leaves the state the first clear produced.
C7_ClearIdempotent ==
    /\ ~JournalFileExists =>
          \A remove_ok \in BOOLEAN :
             vcpak_state_clear(fs, StoragePrefix, remove_ok) = [ret |-> VCPAK_OK, fs |-> fs]
    /\ \A ok1 \in BOOLEAN :
          LET r1 == vcpak_state_clear(fs, StoragePrefix, ok1) IN
          r1.ret = VCPAK_OK =>
             /\ ~file_exists(r1.fs, StatePath)
             /\ \A ok2 \in BOOLEAN :
                   vcpak_state_clear(r1.fs, StoragePrefix, ok2)
                      = [ret |-> VCPAK_OK, fs |-> r1.fs]
    /\ (last.op = "clear" /\ prev.op = "clear" /\ prev.ret = VCPAK_OK) =>
          (last.ret = VCPAK_OK /\ ~JournalFileExists)

C7_Witness ==
    /\ last.op = "clear" /\ last.ret = VCPAK_OK
    /\ prev.op = "clear" /\ prev.ret = VCPAK_OK
    /\ ~JournalFileExists

\* C8: single global slot. Whatever saves and clears were made, for whatever
\* games, the menu directory holds at most one journal file, at the one
\* well-known path, and a load without I/O failure returns the record of the
\* latest successful save since the last clear: nothing of an earlier record
\* remains.
C8_SingleSlot ==
    /\ DOMAIN fs \subseteq {StatePath}
    /\ Cardinality(DOMAIN fs) <= 1
    /\ expected # {} =>
          vcpak_state_load(fs, StoragePrefix, "ok") = [ret |-> VCPAK_OK, state |-> expected]

C8_Witness ==
    /\ last.op = "save" /\ last.ret = VCPAK_OK
    /\ prev.op = "save" /\ prev.ret = VCPAK_OK
    /\ \E a \in prev.arg, b \in last.arg :
          /\ a.game_code # b.game_code
          /\ a.pak_path # b.pak_path
          /\ a.is_dirty = 1
    /\ vcpak_state_load(fs, StoragePrefix, "ok").state = last.arg

\* the is_dirty member of the journal file is present and non-zero
DirtyFlagSet ==
    /\ JournalFile.len >= FieldEnd("is_dirty")
    /\ JournalFile.data.is_dirty # 0

-----------------------------------------------------------------------------
(* Image codec, virtual_cpak.c *)

\* A buffer or a file is the sequence of its bytes; At(buf, off) is buf[off]
\* of the C code (offsets count from 0).
At(buf, off) == buf[off + 1]

\* the sequence with the values of f, a function on 1..n
AsBytes(f, n) == SubSeq(f, 1, n)

\* fills the buffer with 0xFF
MutantFilledFF(n) == AsBytes([i \in 1..n |-> 255], n)

\* memset(buf, 0x00, n): a buffer of n zero bytes
Zeroed(n) == AsBytes([i \in 1..n |-> 0], n)

\* memcpy(&dst[off], src, n)
memcpy(dst, off, src, n) ==
    SubSeq(dst, 1, off) \o SubSeq(src, 1, n) \o SubSeq(dst, off + n + 1, Len(dst))

\* buf[off] = value
Poke(buf, off, value) == [buf EXCEPT ![off + 1] = value]

\* "N64MENUVPAK"
IdTag == <<78, 54, 52, 77, 69, 78, 85, 86, 80, 65, 75>>

RECURSIVE IdWordSum(_, _)
\* reads the words low byte first
MutantLittleEndianWords(id_sector, n) ==
    IF n = 0 THEN 0
    ELSE (At(id_sector, (n - 1) * 2 + 1) * 256 + At(id_sector, (n - 1) * 2))
            + IdWordSum(id_sector, n - 1)

\* the loop of vcpak_calc_id_checksum: sum of the first n big-endian words
IdWordSum(id_sector, n) ==
    IF n = 0 THEN 0
    ELSE (At(id_sector, (n - 1) * 2) * 256 + At(id_sector, (n - 1) * 2 + 1))
            + IdWordSum(id_sector, n - 1)

\* vcpak_calc_id_checksum(id_sector, &checksum1, &checksum2), uint16_t results
vcpak_calc_id_checksum(id_sector) ==
    LET sum == IdWordSum(id_sector, 14)   \* uint32_t: 14 words cannot overflow it
        checksum1 == sum % 65536
    IN  [checksum1 |-> checksum1,
         checksum2 |-> (65522 - checksum1) % 65536]

RECURSIVE FatByteSum(_, _, _)
\* the loop of vcpak_calc_fat_checksum: both bytes of the entries i..end-1,
\* added up by halves of the index range
FatByteSum(fat_page, i, end) ==
    IF i >= end THEN 0
    ELSE IF end - i = 1 THEN At(fat_page, i * 2) + At(fat_page, i * 2 + 1)
    ELSE LET mid == i + (end - i) \div 2
         IN  FatByteSum(fat_page, i, mid) + FatByteSum(fat_page, mid, end)

\* vcpak_calc_fat_checksum(fat_page, start_idx), uint8_t result
vcpak_calc_fat_checksum(fat_page, start_idx) ==
    FatByteSum(fat_page, start_idx, 128) % 256

\* the 32-byte ID sector vcpak_create_empty builds
IdSector ==
    LET tagged == memcpy(Zeroed(32), 0, IdTag, 11)
        sized == Poke(Poke(Poke(Poke(tagged, 24, 0), 25, 1), 26, 1), 27, 0)
        c == vcpak_calc_id_checksum(sized)
    IN  Poke(Poke(Poke(Poke(sized,
            28, (c.checksum1 \div 256) % 256),
            29, c.checksum1 % 256),
            30, (c.checksum2 \div 256) % 256),
            31, c.checksum2 % 256)

\* marks the free entries with i < 127
MutantFatLastEntryReserved ==
    LET entries == AsBytes([i \in 1..256 |->
                              LET off == i - 1 IN
                              IF off \div 2 >= 5 /\ off \div 2 < 127 /\ off % 2 = 1
                              THEN 3 ELSE 0], 256)
    IN  Poke(entries, 1, vcpak_calc_fat_checksum(entries, 5))

\* the 256-byte FAT page vcpak_create_empty builds: entries 1-4 reserved
\* (0x00, 0x00), entries 5-127 unused (0x00, 0x03), the checksum in byte 1
FatPage ==
    LET entries == AsBytes([i \in 1..256 |->
                              LET off == i - 1 IN
                              IF off \div 2 >= 5 /\ off \div 2 < 128 /\ off % 2 = 1
                              THEN 3 ELSE 0], 256)
    IN  Poke(entries, 1, vcpak_calc_fat_checksum(entries, 5))

\* the buffer vcpak_create_empty writes: ID sector at 0x20, 0x60, 0x80, 0xC0,
\* FAT at 0x100 and 0x200, the rest zero
EmptyPakData ==
    LET d0 == Zeroed(CPAK_BANK_SIZE)
        d1 == memcpy(d0, 32, IdSector, 32)
        d2 == memcpy(d1, 96, IdSector, 32)
        d3 == memcpy(d2, 128, IdSector, 32)
        d4 == memcpy(d3, 192, IdSector, 32)
        d5 == memcpy(d4, 256, FatPage, 256)
    IN  memcpy(d5, 512, FatPage, 256)

\* fwrite(data, 1, n, fp) that put `written` bytes in the file
Written(data, written) == SubSeq(data, 1, written)

\* returns success without comparing written to CPAK_BANK_SIZE
MutantCreateIgnoresShortWrite(files, pak_path, malloc_ok, fopen_ok, written) ==
    IF ~malloc_ok THEN [ret |-> VCPAK_ERR_ALLOC, paks |-> files]
    ELSE IF ~fopen_ok THEN [ret |-> VCPAK_ERR_IO, paks |-> files]
    ELSE [ret |-> VCPAK_OK,
          paks |-> WriteFile(files, pak_path, Written(EmptyPakData, written))]

\* vcpak_create_empty(pak_path). Inputs: malloc and fopen succeed, bytes
\* fwrite wrote. Result: [ret, paks].
vcpak_create_empty(files, pak_path, malloc_ok, fopen_ok, written) ==
    IF ~malloc_ok THEN [ret |-> VCPAK_ERR_ALLOC, paks |-> files]
    ELSE IF ~fopen_ok THEN [ret |-> VCPAK_ERR_IO, paks |-> files]
    ELSE [ret |-> IF written # CPAK_BANK_SIZE THEN VCPAK_ERR_IO ELSE VCPAK_OK,
          paks |-> WriteFile(files, pak_path, Written(EmptyPakData, written))]

\* what vcpak_create_empty returns, for callers that look at nothing else
vcpak_create_empty_ret(malloc_ok, fopen_ok, written) ==
    IF ~malloc_ok THEN VCPAK_ERR_ALLOC
    ELSE IF ~fopen_ok THEN VCPAK_ERR_IO
    ELSE IF written # CPAK_BANK_SIZE THEN VCPAK_ERR_IO ELSE VCPAK_OK

-----------------------------------------------------------------------------
(* Image creation as a state machine (specification SpecImage) *)

\* paths images are created at
NewPakPaths == {PakPath("NSME", "a.pak"), PakPath("NMKE", "a.pak")}

\* byte counts a failed fwrite can leave: nothing, page 0 only, the reserved
\* pages only, all but the last byte
ShortImageWrites == {0, 256, 1280, CPAK_BANK_SIZE - 1}

InitImage ==
    /\ fs = EmptyFs
    /\ IdleJournal
    /\ IdleRecovery
    /\ IdleImage
    /\ IdleSelect
    /\ IdleSaver
    /\ IdleTransfer
    /\ IdleCatalog

CreateEmpty(pak_path, malloc_ok, fopen_ok, written) ==
    LET r == vcpak_create_empty(paks, pak_path, malloc_ok, fopen_ok, written) IN
    /\ paks' = r.paks
    /\ created' = [path |-> pak_path, ret |-> r.ret, malloc_ok |-> malloc_ok,
                    fopen_ok |-> fopen_ok, written |-> written, before |-> paks]
    /\ UNCHANGED <<journalVars, recoveryVars, transferVars, catalogVars, selectVars, saverVars>>

\* the user deletes a pak image file
DeletePak(pak_path) ==
    /\ pak_path \in DOMAIN paks
    /\ paks' = RemoveFile(paks, pak_path)
    /\ created' = [NoCreate EXCEPT !.path = pak_path, !.ret = "deleted",
                                    !.before = paks]
    /\ UNCHANGED <<journalVars, recoveryVars, transferVars, catalogVars, selectVars, saverVars>>

NextImage ==
    \/ \E pak_path \in NewPakPaths,
          written \in ShortImageWrites \cup {CPAK_BANK_SIZE} :
            CreateEmpty(pak_path, TRUE, TRUE, written)
    \/ \E pak_path \in NewPakPaths : CreateEmpty(pak_path, TRUE, FALSE, 0)
    \/ \E pak_path \in NewPakPaths : CreateEmpty(pak_path, FALSE, FALSE, 0)
    \/ \E pak_path \in DOMAIN paks : DeletePak(pak_path)

SpecImage == InitImage /\ [][NextImage]_vars

-----------------------------------------------------------------------------
(* Image properties (specification SpecImage) *)

\* the image the last successful vcpak_create_empty wrote
CreatedOk == created.ret = VCPAK_OK /\ created.path \in DOMAIN paks
CreatedImage == paks[created.path]

\* big-endian 16-bit word at byte offset off of block b of image img
BlockWord(img, b, off) == At(img, b + off) * 256 + At(img, b + off + 1)

RECURSIVE BlockWordSum(_, _, _)
BlockWordSum(img, b, n) ==
    IF n = 0 THEN 0 ELSE BlockWord(img, b, 2 * (n - 1)) + BlockWordSum(img, b, n - 1)

IdOffsets == {32, 96, 128, 192}

\* C10: after vcpak_create_empty succeeds, the 32-byte blocks at 0x20, 0x60,
\* 0x80 and 0xC0 of the image file are byte-identical; in each, bytes 0-10
\* are the ASCII tag, bytes 11-23 are 0, bytes 24-25 are 0x0001, bytes 26-27
\* are 0x0100, bytes 28-29 are the sum of the 14 big-endian words of bytes
\* 0-27 mod 65536 and bytes 30-31 are (0xFFF2 - checksum1) mod 65536.
C10_IdSectorCopies ==
    CreatedOk =>
        \A b \in IdOffsets :
            /\ \A i \in 0..31 : At(CreatedImage, b + i) = At(CreatedImage, 32 + i)
            /\ \A i \in 0..10 : At(CreatedImage, b + i) = IdTag[i + 1]
            /\ \A i \in 11..23 : At(CreatedImage, b + i) = 0
            /\ BlockWord(CreatedImage, b, 24) = 1
            /\ BlockWord(CreatedImage, b, 26) = 256
            /\ BlockWord(CreatedImage, b, 28) = BlockWordSum(CreatedImage, b, 14) % 65536
            /\ BlockWord(CreatedImage, b, 30)
                  = (65522 - BlockWord(CreatedImage, b, 28)) % 65536

C10_Witness ==
    /\ CreatedOk
    /\ Len(CreatedImage) = CPAK_BANK_SIZE
    /\ BlockWord(CreatedImage, 192, 28) = 47465
    /\ BlockWord(CreatedImage, 192, 30) = 18057

\* entry e of the allocation table at offset t of image img, as a 16-bit value
FatEntry(img, t, e) == At(img, t + 2 * e) * 256 + At(img, t + 2 * e + 1)

RECURSIVE FatPairSum(_, _, _, _)
\* sum of the (bank, page) bytes of entries lo..hi of the table at offset t
FatPairSum(img, t, lo, hi) ==
    IF lo > hi THEN 0
    ELSE IF lo = hi THEN At(img, t + 2 * lo) + At(img, t + 2 * lo + 1)
    ELSE LET mid == (lo + hi) \div 2
         IN  FatPairSum(img, t, lo, mid) + FatPairSum(img, t, mid + 1, hi)

\* C11: after vcpak_create_empty succeeds, the allocation table at 0x100 has
\* entries 1-4 = 0x0000, entries 5-127 = 0x0003, entry 0 with high byte 0 and
\* low byte = the sum of the bytes of entries 5..127 truncated to 8 bits, and
\* the 256 bytes at 0x200 are the same as those at 0x100.
C11_FatAndBackup ==
    CreatedOk =>
        /\ \A e \in 1..4 : FatEntry(CreatedImage, 256, e) = 0
        /\ \A e \in 5..127 : FatEntry(CreatedImage, 256, e) = 3
        /\ At(CreatedImage, 256) = 0
        /\ At(CreatedImage, 257) = FatPairSum(CreatedImage, 256, 5, 127) % 256
        /\ \A i \in 0..255 : At(CreatedImage, 512 + i) = At(CreatedImage, 256 + i)

C11_Witness ==
    /\ CreatedOk
    /\ FatEntry(CreatedImage, 256, 0) = 113
    /\ FatEntry(CreatedImage, 512, 127) = 3

\* byte offsets of the image that hold an ID-sector copy or a table copy
StructuredOffsets ==
    UNION {b..(b + 31) : b \in IdOffsets} \cup (256..767)

\* C12: a freshly created image is exactly CPAK_BANK_SIZE bytes long and every
\* byte outside the four ID-sector copies and the two allocation-table copies
\* is zero (rest of page 0, note table 0x300-0x4FF, data pages 0x500-0x7FFF).
C12_OneBankZeroElsewhere ==
    CreatedOk =>
        /\ Len(CreatedImage) = CPAK_BANK_SIZE
        /\ \A off \in (0..(CPAK_BANK_SIZE - 1)) \ StructuredOffsets :
              At(CreatedImage, off) = 0

C12_Witness ==
    /\ CreatedOk
    /\ At(CreatedImage, 0) = 0 /\ At(CreatedImage, 31) = 0
    /\ At(CreatedImage, 32) = 78
    /\ At(CreatedImage, 768) = 0 /\ At(CreatedImage, 1280) = 0
    /\ At(CreatedImage, CPAK_BANK_SIZE - 1) = 0

\* the last step was a vcpak_create_empty call
CreateCalled == created.ret \in vcpak_err_t

\* C13: vcpak_create_empty returns VCPAK_OK only if all CPAK_BANK_SIZE bytes
\* were written; a failed malloc, a failed fopen or a short write each gives
\* an error; after a failed malloc or fopen the files are as they were.
C13_OkOnlyIfComplete ==
    CreateCalled =>
        /\ created.ret = VCPAK_OK =>
              /\ created.malloc_ok /\ created.fopen_ok
              /\ created.written = CPAK_BANK_SIZE
              /\ created.path \in DOMAIN paks
              /\ Len(paks[created.path]) = CPAK_BANK_SIZE
        /\ (~created.malloc_ok \/ ~created.fopen_ok
               \/ created.written # CPAK_BANK_SIZE) => created.ret # VCPAK_OK
        /\ (~created.malloc_ok \/ ~created.fopen_ok) => paks = created.before

\* a short write over an existing complete image: reported as an error,
\* the file left incomplete
C13_Witness ==
    /\ CreateCalled
    /\ created.malloc_ok /\ created.fopen_ok
    /\ created.written = CPAK_BANK_SIZE - 1
    /\ created.ret = VCPAK_ERR_IO
    /\ created.path \in DOMAIN created.before
    /\ Len(created.before[created.path]) = CPAK_BANK_SIZE
    /\ Len(paks[created.path]) = CPAK_BANK_SIZE - 1

-----------------------------------------------------------------------------
(* Bank transfer between a pak image file and the Controller Pak:
   virtual_cpak.c, views/cpak_dump_info.c, utils/cpakfs_utils.h *)

\* largest Controller Pak, in banks
MaxBanks == 2

\* contents are followed in units of half a bank, so that a file can end
\* inside a bank and a write can stop inside one
HalfBank == CPAK_BANK_SIZE \div 2
UnitsPerBank == CPAK_BANK_SIZE \div HalfBank

Min(a, b) == IF a < b THEN a ELSE b

\* size in bytes of a file whose data is the sequence of units data
FileSize(data) == Len(data) * HalfBank

\* fread(data, 1, CPAK_BANK_SIZE, fp) at bank `bank` of the file: up to one
\* bank, less at the end of the file
fread_bank(data, bank) ==
    SubSeq(data, bank * UnitsPerBank + 1,
           Min((bank + 1) * UnitsPerBank, Len(data)))

\* cpak_write(controller, buf, bank * CPAK_BANK_SIZE, len) that put the first
\* `units` units of buf into the bank
cpak_write(banks, bank, buf, units) ==
    [banks EXCEPT ![bank + 1] =
        SubSeq(buf, 1, units) \o SubSeq(banks[bank + 1], units + 1, UnitsPerBank)]

\* cpak_probe_banks(controller): the bank count, or an error
cpak_probe_banks(banks, probe_ok) == IF probe_ok THEN Len(banks) ELSE -1

\* required bank count of an image of filesize bytes: ceil(size / bank size)
TotalBanks(filesize) == (filesize + CPAK_BANK_SIZE - 1) \div CPAK_BANK_SIZE

RECURSIVE RestoreBanks(_, _, _, _, _, _)
\* the bank loop of cpak_restore_from_file, from bank `bank` on: read up to a
\* bank from the file, write exactly that many bytes to the same bank of the
\* device, abort at the first failure.
\* Result: [err, ctx, banks, log]; log lists the file reads and device writes.
RestoreBanks(banks, data, bank, ctx, f, log) ==
    IF bank >= ctx.total_banks
    THEN [err |-> CPAK_IO_OK, ctx |-> ctx, banks |-> banks, log |-> log]
    ELSE
    LET buf == fread_bank(data, bank)
        bytes_read == Len(buf) * HalfBank
        failing == f.fail_bank = bank
        read_log == Append(log, <<"fread", bank>>)
        write_log == Append(read_log, <<"cpak_write", bank>>)
    IN
    IF failing /\ f.fail_kind = "fread"
    THEN [err |-> CPAK_IO_ERR_FILE_READ,
          ctx |-> [ctx EXCEPT !.failed_bank = bank],
          banks |-> banks, log |-> read_log]
    ELSE IF failing /\ f.fail_kind = "cpak_write_error"
    THEN [err |-> CPAK_IO_ERR_PAK_WRITE,
          ctx |-> [ctx EXCEPT !.failed_bank = bank,
                              !.bytes_expected = bytes_read,
                              !.bytes_actual = -1, !.error_code = -1],
          banks |-> banks, log |-> write_log]
    ELSE IF failing /\ f.fail_kind = "cpak_write_short" /\ Len(buf) > 0
    THEN [err |-> CPAK_IO_ERR_PAK_WRITE,
          ctx |-> [ctx EXCEPT !.failed_bank = bank,
                              !.bytes_expected = bytes_read,
                              !.bytes_actual = bytes_read - HalfBank,
                              !.error_code = bytes_read - HalfBank],
          banks |-> cpak_write(banks, bank, buf, Len(buf) - 1),
          log |-> write_log]
    ELSE RestoreBanks(cpak_write(banks, bank, buf, Len(buf)), data, bank + 1,
                      ctx, f, write_log)

\* cpak_restore_from_file(controller, filepath, &ctx). dev: the device,
\* file: the image file, f: the faults the call meets.
\* Result: [err, ctx, banks, log].
cpak_restore_from_file(dev, file, f) ==
    LET stop(e, c) == [err |-> e, ctx |-> c, banks |-> dev.banks, log |-> << >>]
        filesize == FileSize(file.data)
        sized == [NoCtx EXCEPT !.filesize = filesize,
                               !.total_banks = TotalBanks(filesize)]
        device_banks == cpak_probe_banks(dev.banks, f.probe_ok)
        probed == [sized EXCEPT !.device_banks = device_banks]
    IN
    IF ~has_cpak(dev.present) THEN stop(CPAK_IO_ERR_NO_PAK, NoCtx)
    ELSE IF ~f.malloc_ok THEN stop(CPAK_IO_ERR_ALLOC, NoCtx)
    ELSE IF ~file.exists \/ ~f.fopen_ok THEN stop(CPAK_IO_ERR_FILE_OPEN, NoCtx)
    ELSE IF ~f.fseek_ok THEN stop(CPAK_IO_ERR_FILE_SEEK, NoCtx)
    ELSE IF ~f.ftell_ok THEN stop(CPAK_IO_ERR_FILE_FTELL, NoCtx)
    ELSE IF device_banks < 1
    THEN stop(CPAK_IO_ERR_PROBE_BANKS, [sized EXCEPT !.error_code = device_banks])
    ELSE IF sized.total_banks > device_banks
    THEN stop(CPAK_IO_ERR_TOO_LARGE, probed)
    ELSE RestoreBanks(dev.banks, file.data, 0, probed, f, << >>)

\* returns VCPAK_ERR_IO for CPAK_IO_ERR_TOO_LARGE
MutantProbeIsIo(err) ==
    CASE err = CPAK_IO_OK -> VCPAK_OK
      [] err = CPAK_IO_ERR_NO_PAK -> VCPAK_ERR_NO_CPAK
      [] err = CPAK_IO_ERR_ALLOC -> VCPAK_ERR_ALLOC
      [] err = CPAK_IO_ERR_FILE_OPEN -> VCPAK_ERR_FILE_NOT_FOUND
      [] err = CPAK_IO_ERR_TOO_LARGE -> VCPAK_ERR_TOO_LARGE
      [] OTHER -> VCPAK_ERR_IO

\* returns VCPAK_ERR_IO for CPAK_IO_ERR_TOO_LARGE
MutantTooLargeIsIo(err) ==
    CASE err = CPAK_IO_OK -> VCPAK_OK
      [] err = CPAK_IO_ERR_NO_PAK -> VCPAK_ERR_NO_CPAK
      [] err = CPAK_IO_ERR_ALLOC -> VCPAK_ERR_ALLOC
      [] err = CPAK_IO_ERR_FILE_OPEN -> VCPAK_ERR_FILE_NOT_FOUND
      [] err = CPAK_IO_ERR_PROBE_BANKS -> VCPAK_ERR_CORRUPTED
      [] OTHER -> VCPAK_ERR_IO

\* returns VCPAK_OK where the switch has no case
MutantDefaultIsOk(err) ==
    CASE err = CPAK_IO_OK -> VCPAK_OK
      [] err = CPAK_IO_ERR_NO_PAK -> VCPAK_ERR_NO_CPAK
      [] err = CPAK_IO_ERR_ALLOC -> VCPAK_ERR_ALLOC
      [] err = CPAK_IO_ERR_FILE_OPEN -> VCPAK_ERR_FILE_NOT_FOUND
      [] err = CPAK_IO_ERR_FILE_SEEK -> VCPAK_ERR_IO
      [] err = CPAK_IO_ERR_FILE_FTELL -> VCPAK_ERR_IO
      [] err = CPAK_IO_ERR_PROBE_BANKS -> VCPAK_ERR_CORRUPTED
      [] err = CPAK_IO_ERR_TOO_LARGE -> VCPAK_ERR_TOO_LARGE
      [] err = CPAK_IO_ERR_FILE_READ -> VCPAK_ERR_IO
      [] OTHER -> VCPAK_OK

\* returns VCPAK_ERR_IO for CPAK_IO_ERR_NO_PAK
MutantNoPakIsIo(err) ==
    CASE err = CPAK_IO_OK -> VCPAK_OK
      [] err = CPAK_IO_ERR_ALLOC -> VCPAK_ERR_ALLOC
      [] err = CPAK_IO_ERR_FILE_OPEN -> VCPAK_ERR_FILE_NOT_FOUND
      [] err = CPAK_IO_ERR_PROBE_BANKS -> VCPAK_ERR_CORRUPTED
      [] err = CPAK_IO_ERR_TOO_LARGE -> VCPAK_ERR_TOO_LARGE
      [] OTHER -> VCPAK_ERR_IO

\* the switch (err) of vcpak_restore_to_physical
vcpak_restore_err(err) ==
    CASE err = CPAK_IO_OK -> VCPAK_OK
      [] err = CPAK_IO_ERR_NO_PAK -> VCPAK_ERR_NO_CPAK
      [] err = CPAK_IO_ERR_ALLOC -> VCPAK_ERR_ALLOC
      [] err = CPAK_IO_ERR_FILE_OPEN -> VCPAK_ERR_FILE_NOT_FOUND
      [] err = CPAK_IO_ERR_FILE_SEEK -> VCPAK_ERR_IO
      [] err = CPAK_IO_ERR_FILE_FTELL -> VCPAK_ERR_IO
      [] err = CPAK_IO_ERR_PROBE_BANKS -> VCPAK_ERR_CORRUPTED
      [] err = CPAK_IO_ERR_TOO_LARGE -> VCPAK_ERR_TOO_LARGE
      [] err = CPAK_IO_ERR_FILE_READ -> VCPAK_ERR_IO
      [] err = CPAK_IO_ERR_PAK_WRITE -> VCPAK_ERR_IO
      [] OTHER -> VCPAK_ERR_IO

\* restores without unmounting the cpakfs view first
MutantRestoreNoUnmount(dev, file, f) ==
    LET r == cpak_restore_from_file(dev, file, f) IN
    [ret |-> vcpak_restore_err(r.err), message |-> << >>, err |-> r.err,
     ctx |-> r.ctx, banks |-> r.banks, log |-> r.log,
     calls |-> <<"cpak_restore_from_file">>]

\* vcpak_restore_to_physical(pak_path, controller): unmounts the cpakfs view
\* (no device access), restores, maps the result. The context is only logged.
\* Result: [ret, message, err, ctx, banks, log, calls], calls the functions
\* called on the controller, in order; log the accesses of the restore.
vcpak_restore_to_physical(dev, file, f) ==
    LET r == cpak_restore_from_file(dev, file, f) IN
    [ret |-> vcpak_restore_err(r.err), message |-> << >>, err |-> r.err,
     ctx |-> r.ctx, banks |-> r.banks, log |-> r.log,
     calls |-> <<"cpakfs_unmount", "cpak_restore_from_file">>]

\* failure_message of cpak_dump_info.c: the text and the numbers printed in it
Message(text, bank, bytes_actual, bytes_expected, code) ==
    [text |-> text, bank |-> bank, actual |-> bytes_actual,
     expected |-> bytes_expected, code |-> code]

\* prints the bank after the failing one
MutantMessageNextBank(dev, file, f) ==
    LET r == cpak_restore_from_file(dev, file, f) IN
    [ret |-> IF r.err = CPAK_IO_OK THEN "true" ELSE "false",
     message |-> Message("Failed to write bank", r.ctx.failed_bank + 1,
                         r.ctx.bytes_actual, r.ctx.bytes_expected,
                         r.ctx.error_code),
     err |-> r.err, ctx |-> r.ctx, banks |-> r.banks, log |-> r.log,
     calls |-> <<"has_cpak", "cpakfs_unmount", "cpak_restore_from_file">>]

\* restore_controller_pak(controller) of cpak_dump_info.c.
\* Result: [ret, message, err, ctx, banks, log, calls], ret "true" or
\* "false".
restore_controller_pak(dev, file, f) ==
    IF ~has_cpak(dev.present)
    THEN [ret |-> "false",
          message |-> Message("No Controller Pak detected", -1, -1, -1, 0),
          err |-> "none", ctx |-> NoCtx, banks |-> dev.banks, log |-> << >>,
          calls |-> <<"has_cpak">>]
    ELSE
    LET r == cpak_restore_from_file(dev, file, f)
        c == r.ctx
        plain(text) == Message(text, -1, -1, -1, 0)
    IN
    [ret |-> IF r.err = CPAK_IO_OK THEN "true" ELSE "false",
     message |->
        CASE r.err = CPAK_IO_OK -> plain("Dump restored")
          [] r.err = CPAK_IO_ERR_NO_PAK -> plain("No Controller Pak detected")
          [] r.err = CPAK_IO_ERR_ALLOC -> plain("Memory allocation failed")
          [] r.err = CPAK_IO_ERR_FILE_OPEN -> plain("Failed to open file for reading")
          [] r.err = CPAK_IO_ERR_FILE_SEEK -> plain("Seek failed")
          [] r.err = CPAK_IO_ERR_FILE_FTELL -> plain("ftell failed")
          [] r.err = CPAK_IO_ERR_PROBE_BANKS ->
                Message("Cannot probe Controller Pak banks", -1, -1, -1, c.error_code)
          [] r.err = CPAK_IO_ERR_TOO_LARGE ->
                Message("Dump file too large", -1, c.total_banks, c.device_banks, 0)
          [] r.err = CPAK_IO_ERR_FILE_READ -> plain("Read error from dump file")
          [] r.err = CPAK_IO_ERR_PAK_WRITE ->
                IF c.bytes_actual # c.bytes_expected /\ c.error_code >= 0
                THEN Message("Short write on bank", c.failed_bank,
                             c.bytes_actual, c.bytes_expected, 0)
                ELSE Message("Failed to write bank", c.failed_bank, -1, -1,
                             c.error_code)
          [] OTHER -> plain("Unknown error restoring Controller Pak"),
     err |-> r.err, ctx |-> r.ctx, banks |-> r.banks, log |-> r.log,
     calls |-> <<"has_cpak", "cpakfs_unmount", "cpak_restore_from_file">>]

RECURSIVE BackupBanks(_, _, _, _, _, _)
\* the bank loop of cpak_backup_to_file, from bank `bank` on: read exactly one
\* bank from the device (less is an error), append it to the file, abort at
\* the first failure. Result: [err, ctx, data, log].
BackupBanks(banks, data, bank, ctx, f, log) ==
    IF bank >= ctx.device_banks
    THEN [err |-> CPAK_IO_OK, ctx |-> ctx, data |-> data, log |-> log]
    ELSE
    LET failing == f.fail_bank = bank
        read_log == Append(log, <<"cpak_read", bank>>)
        write_log == Append(read_log, <<"fwrite", bank>>)
        failed(actual) == [ctx EXCEPT !.failed_bank = bank,
                                      !.bytes_expected = CPAK_BANK_SIZE,
                                      !.bytes_actual = actual,
                                      !.error_code = actual]
    IN
    IF failing /\ f.fail_kind = "cpak_read_error"
    THEN [err |-> CPAK_IO_ERR_PAK_READ, ctx |-> failed(-1),
          data |-> data, log |-> read_log]
    ELSE IF failing /\ f.fail_kind = "cpak_read_short"
    THEN [err |-> CPAK_IO_ERR_PAK_READ, ctx |-> failed(HalfBank),
          data |-> data, log |-> read_log]
    ELSE IF failing /\ f.fail_kind = "fwrite"
    THEN [err |-> CPAK_IO_ERR_FILE_WRITE, ctx |-> failed(HalfBank),
          data |-> data \o SubSeq(banks[bank + 1], 1, 1), log |-> write_log]
    ELSE BackupBanks(banks, data \o banks[bank + 1], bank + 1, ctx, f, write_log)

\* cpak_backup_to_file(controller, filepath, &ctx) bank by bank: requires a
\* pak, probes the bank count (1 if the probe is inconclusive), opens the
\* file for writing and copies the banks. Result: [err, ctx, file, log].
BackupToFile(dev, file, f) ==
    LET stop(e) == [err |-> e, ctx |-> NoCtx, file |-> file, log |-> << >>]
        probe == cpak_probe_banks(dev.banks, f.probe_ok)
        device_banks == IF probe < 1 THEN 1 ELSE probe
        r == BackupBanks(dev.banks, << >>, 0,
                         [NoCtx EXCEPT !.device_banks = device_banks], f, << >>)
    IN
    IF ~has_cpak(dev.present) THEN stop(CPAK_IO_ERR_NO_PAK)
    ELSE IF ~f.malloc_ok THEN stop(CPAK_IO_ERR_ALLOC)
    ELSE IF ~f.fopen_ok THEN stop(CPAK_IO_ERR_FILE_OPEN)
    ELSE [err |-> r.err, ctx |-> r.ctx,
          file |-> [exists |-> TRUE, data |-> r.data], log |-> r.log]

-----------------------------------------------------------------------------
(* Transfers as a state machine (specification SpecTransfer) *)

\* contents of a pak of n banks; every unit carries a different value
PakBanks(label, n) ==
    [b \in 1..n |-> <<label + UnitsPerBank * (b - 1),
                      label + UnitsPerBank * (b - 1) + 1>>]

\* data of an image file of `units` units
DumpData(units) == [i \in 1..units |-> 200 + i]

\* faults met before the bank loop, one at a time
EarlyFaults ==
    {[NoFault EXCEPT !.malloc_ok = FALSE], [NoFault EXCEPT !.fopen_ok = FALSE],
     [NoFault EXCEPT !.probe_ok = FALSE]}

\* faults of sizing the image file
SizeFaults ==
    {[NoFault EXCEPT !.fseek_ok = FALSE], [NoFault EXCEPT !.ftell_ok = FALSE]}

BankFaults(kinds) ==
    {[NoFault EXCEPT !.fail_bank = b, !.fail_kind = k] :
        b \in 0..(MaxBanks - 1), k \in kinds}

RestoreFaults ==
    {NoFault} \cup EarlyFaults \cup SizeFaults
        \cup BankFaults({"fread", "cpak_write_error", "cpak_write_short"})

BackupFaults ==
    {NoFault} \cup EarlyFaults
        \cup BankFaults({"cpak_read_error", "cpak_read_short", "fwrite"})
        \cup {[NoFault EXCEPT !.probe_ok = FALSE, !.fail_bank = 0, !.fail_kind = k] :
                 k \in {"cpak_read_error", "fwrite"}}

InitTransfer ==
    /\ fs = EmptyFs
    /\ IdleJournal
    /\ IdleRecovery
    /\ IdleImage
    /\ IdleSelect
    /\ IdleSaver
    /\ device \in {[present |-> p, banks |-> PakBanks(100, n)] :
                      p \in BOOLEAN, n \in 1..MaxBanks}
    /\ dump \in {[exists |-> FALSE, data |-> << >>]}
                  \cup {[exists |-> TRUE, data |-> DumpData(u)] :
                           u \in 0..((MaxBanks + 1) * UnitsPerBank)}
    /\ xfer = NoXfer
    /\ backed = << >>
    /\ IdleCatalog

\* what a transfer leaves in xfer
Transferred(op, via, f, r) ==
    [op |-> op, via |-> via, f |-> f, err |-> r.err, ret |-> r.ret,
     ctx |-> r.ctx, log |-> r.log, calls |-> r.calls, message |-> r.message,
     device_before |-> device, dump_before |-> dump]

\* a caller restores the image to the pak with vcpak_restore_to_physical
RestoreToPhysical(f) ==
    /\ LET r == vcpak_restore_to_physical(device, dump, f) IN
       /\ device' = [device EXCEPT !.banks = r.banks]
       /\ xfer' = Transferred("restore", "vcpak_restore_to_physical", f, r)
    /\ UNCHANGED <<dump, backed, journalVars, recoveryVars, imageVars, catalogVars, selectVars, saverVars>>

\* the dump-info view restores the image with restore_controller_pak
RestoreControllerPak(f) ==
    /\ LET r == restore_controller_pak(device, dump, f) IN
       /\ device' = [device EXCEPT !.banks = r.banks]
       /\ xfer' = Transferred("restore", "restore_controller_pak", f, r)
    /\ UNCHANGED <<dump, backed, journalVars, recoveryVars, imageVars, catalogVars, selectVars, saverVars>>

\* a caller backs the pak up to the image with vcpak_backup_from_physical
BackupFromPhysical(f) ==
    /\ LET b == BackupToFile(device, dump, f)
           r == [ret |-> vcpak_backup_err(b.err), err |-> b.err, ctx |-> b.ctx,
                 log |-> b.log, calls |-> <<"cpak_backup_to_file">>,
                 message |-> NoXfer.message]
       IN
       /\ dump' = b.file
       /\ xfer' = Transferred("backup", "vcpak_backup_from_physical", f, r)
       /\ backed' = IF b.err = CPAK_IO_OK THEN device.banks
                    ELSE IF b.file = dump THEN backed ELSE << >>
    /\ UNCHANGED <<device, journalVars, recoveryVars, imageVars, catalogVars, selectVars, saverVars>>

\* between transfers a game rewrites the pak of the port, or the user puts
\* in another pak of the same capacity
PakChanged ==
    /\ device # [present |-> TRUE, banks |-> PakBanks(300, Len(device.banks))]
    /\ device' = [present |-> TRUE, banks |-> PakBanks(300, Len(device.banks))]
    /\ xfer' = NoXfer
    /\ UNCHANGED <<dump, backed, journalVars, recoveryVars, imageVars, catalogVars, selectVars, saverVars>>

NextTransfer ==
    \/ \E f \in RestoreFaults : RestoreToPhysical(f)
    \/ \E f \in RestoreFaults : RestoreControllerPak(f)
    \/ \E f \in BackupFaults : BackupFromPhysical(f)
    \/ PakChanged

SpecTransfer == InitTransfer /\ [][NextTransfer]_vars

-----------------------------------------------------------------------------
(* Transfer properties (specification SpecTransfer) *)

Restored == xfer.op = "restore"
BackedUp == xfer.op = "backup"
ViaVcpak == xfer.via = "vcpak_restore_to_physical"
ViaDumpInfo == xfer.via = "restore_controller_pak"

\* the transfer reached its bank loop: pak present, buffer and file there
ReachedSizing ==
    /\ xfer.device_before.present
    /\ xfer.f.malloc_ok /\ xfer.f.fopen_ok
    /\ xfer.f.fseek_ok /\ xfer.f.ftell_ok

\* banks the image of the restore needs, banks the pak had
ImageBanks == TotalBanks(FileSize(xfer.dump_before.data))
PakBankCount == Len(xfer.device_before.banks)

\* the bytes of bank b of the image, as units
ImageBank(b) ==
    SubSeq(xfer.dump_before.data, UnitsPerBank * b + 1,
           Min(UnitsPerBank * (b + 1), Len(xfer.dump_before.data)))

\* bank b of the pak now starts with the image's bank b
HoldsImageBank(b) ==
    SubSeq(device.banks[b + 1], 1, Len(ImageBank(b))) = ImageBank(b)

\* bank b of the pak is as it was before the transfer
BankUntouched(b) ==
    /\ device.banks[b + 1] = xfer.device_before.banks[b + 1]
    /\ \A i \in 1..Len(xfer.log) : xfer.log[i][2] # b

NoDeviceWrite ==
    /\ device.banks = xfer.device_before.banks
    /\ \A i \in 1..Len(xfer.log) : xfer.log[i][1] # "cpak_write"

\* C14: a restore whose image needs more banks than the pak reports fails
\* with the too-large error (VCPAK_ERR_TOO_LARGE; in the dump-info view the
\* "Dump file too large" message) and nothing was written to the pak.
C14_TooLargeBeforeWrite ==
    (Restored /\ xfer.dump_before.exists /\ ReachedSizing /\ xfer.f.probe_ok
        /\ ImageBanks > PakBankCount) =>
        /\ xfer.err = CPAK_IO_ERR_TOO_LARGE
        /\ ViaVcpak => xfer.ret = VCPAK_ERR_TOO_LARGE
        /\ ViaDumpInfo => /\ xfer.ret = "false"
                          /\ xfer.message.text = "Dump file too large"
        /\ NoDeviceWrite

C14_Witness ==
    /\ Restored /\ ViaVcpak
    /\ xfer.ret = VCPAK_ERR_TOO_LARGE
    /\ xfer.ctx.total_banks = 3 /\ xfer.ctx.device_banks = 2
    /\ xfer.ctx.filesize = 2 * CPAK_BANK_SIZE + HalfBank
    /\ NoDeviceWrite

\* the reads and writes of a restore that got as far as writing bank k
LogThrough(k) ==
    [i \in 1..(2 * (k + 1)) |->
        <<IF i % 2 = 1 THEN "fread" ELSE "cpak_write", (i - 1) \div 2>>]

\* the write of bank k of a restore fails
WriteFailsAt(k) ==
    /\ Restored /\ xfer.dump_before.exists /\ ReachedSizing /\ xfer.f.probe_ok
    /\ ImageBanks <= PakBankCount
    /\ xfer.f.fail_bank = k /\ k < ImageBanks
    /\ xfer.f.fail_kind \in {"cpak_write_error", "cpak_write_short"}

\* C15: when the write of bank k of a restore returns an error or fewer bytes
\* than requested, the call reports failed bank k with the expected and
\* actual byte counts, banks 0..k-1 hold the image's banks, the accesses were
\* bank 0, 1, .., k in this order and no bank after k was read or written.
C15_StopsAtFirstFailure ==
    \A k \in 0..(MaxBanks - 1) :
        WriteFailsAt(k) =>
            /\ xfer.err = CPAK_IO_ERR_PAK_WRITE
            /\ xfer.ret # VCPAK_OK /\ xfer.ret # "true"
            /\ xfer.ctx.failed_bank = k
            /\ xfer.ctx.bytes_expected = Len(ImageBank(k)) * HalfBank
            /\ xfer.ctx.bytes_actual < xfer.ctx.bytes_expected
            /\ xfer.log = LogThrough(k)
            /\ \A b \in 0..(k - 1) : HoldsImageBank(b)
            /\ \A b \in (k + 1)..(PakBankCount - 1) : BankUntouched(b)
            /\ ViaDumpInfo =>
                  /\ xfer.message.bank = k
                  /\ xfer.f.fail_kind = "cpak_write_short" =>
                        /\ xfer.message.text = "Short write on bank"
                        /\ xfer.message.actual = xfer.ctx.bytes_actual
                        /\ xfer.message.expected = xfer.ctx.bytes_expected

\* a short write of bank 1 of a two-bank image, seen in the dump-info view
C15_Witness ==
    /\ WriteFailsAt(1) /\ ViaDumpInfo
    /\ xfer.f.fail_kind = "cpak_write_short"
    /\ xfer.message = Message("Short write on bank", 1, HalfBank, CPAK_BANK_SIZE, 0)
    /\ HoldsImageBank(0)
    /\ device.banks[1] # xfer.device_before.banks[1]
    /\ device.banks[2] # xfer.device_before.banks[2]

RestoreSucceeded == Restored /\ xfer.ret \in {VCPAK_OK, "true"}

\* C16: after a restore that returned success every bank of the image was
\* written to the pak bank of the same index with the image's bytes, and the
\* pak banks from the image's bank count on are as they were.
C16_SuccessWritesEveryBank ==
    RestoreSucceeded =>
        /\ xfer.log = IF ImageBanks = 0 THEN << >> ELSE LogThrough(ImageBanks - 1)
        /\ \A b \in 0..(ImageBanks - 1) : HoldsImageBank(b)
        /\ \A b \in ImageBanks..(PakBankCount - 1) : BankUntouched(b)

\* a one-bank image restored to a two-bank pak
C16_Witness ==
    /\ RestoreSucceeded /\ ViaVcpak
    /\ ImageBanks = 1 /\ PakBankCount = 2
    /\ device.banks[1] = ImageBank(0)
    /\ device.banks[1] # xfer.device_before.banks[1]
    /\ BankUntouched(1)

RECURSIVE PakPrefix(_, _)
\* the contents of banks 0..n-1 of the pak, end to end
PakPrefix(banks, n) ==
    IF n = 0 THEN << >> ELSE PakPrefix(banks, n - 1) \o banks[n]

\* banks the backup set out to copy: the probed count, 1 without one
BackupBankCount == IF xfer.f.probe_ok THEN PakBankCount ELSE 1

\* the read of bank k of a backup fails
ReadFailsAt(k) ==
    /\ BackedUp /\ xfer.device_before.present
    /\ xfer.f.malloc_ok /\ xfer.f.fopen_ok
    /\ xfer.f.fail_bank = k /\ k < BackupBankCount
    /\ xfer.f.fail_kind \in {"cpak_read_error", "cpak_read_short"}

\* C17: when the read of bank N of a backup returns an error or less than a
\* bank, the call fails reporting failed bank N, the output file holds exactly
\* banks 0..N-1 of the pak and no bank after N was read.
C17_BackupTruncatedAtFailedBank ==
    \A k \in 0..(MaxBanks - 1) :
        ReadFailsAt(k) =>
            /\ xfer.err = CPAK_IO_ERR_PAK_READ
            /\ xfer.ret = VCPAK_ERR_IO
            /\ xfer.ctx.failed_bank = k
            /\ dump.exists
            /\ dump.data = PakPrefix(xfer.device_before.banks, k)
            /\ \A i \in 1..Len(xfer.log) : xfer.log[i][2] <= k
            /\ xfer.log[Len(xfer.log)] = <<"cpak_read", k>>

\* bank 1 of a two-bank pak is read short: the file is left one bank long
C17_Witness ==
    /\ ReadFailsAt(1)
    /\ xfer.f.fail_kind = "cpak_read_short"
    /\ xfer.ctx.bytes_actual = HalfBank
    /\ FileSize(dump.data) = CPAK_BANK_SIZE
    /\ dump.data = xfer.device_before.banks[1]
    /\ xfer.dump_before.exists /\ Len(xfer.dump_before.data) > Len(dump.data)

\* C18 as stated: a successful restore of the image of the latest successful
\* backup onto a pak of the capacity of the pak backed up leaves that pak with
\* the contents the backed-up pak had.
C18_RoundTrip ==
    (RestoreSucceeded /\ backed # << >> /\ Len(backed) = Len(device.banks)) =>
        device.banks = backed

\* failure kinds of the transfers
FailureKind(err) ==
    CASE err = CPAK_IO_ERR_NO_PAK -> "NoDevice"
      [] err = CPAK_IO_ERR_ALLOC -> "AllocationFailure"
      [] err = CPAK_IO_ERR_FILE_OPEN -> "FileOpenFailure"
      [] err \in {CPAK_IO_ERR_FILE_SEEK, CPAK_IO_ERR_FILE_FTELL} -> "SeekOrSizeFailure"
      [] err = CPAK_IO_ERR_PROBE_BANKS -> "BankCountInvalid"
      [] err = CPAK_IO_ERR_TOO_LARGE -> "ImageTooLarge"
      [] err \in {CPAK_IO_ERR_FILE_READ, CPAK_IO_ERR_PAK_READ} -> "ShortRead"
      [] err \in {CPAK_IO_ERR_PAK_WRITE, CPAK_IO_ERR_FILE_WRITE} -> "ShortWrite"
      [] OTHER -> "none"

\* the failures a restore and a backup end with
RestoreErrors ==
    {CPAK_IO_ERR_NO_PAK, CPAK_IO_ERR_ALLOC, CPAK_IO_ERR_FILE_OPEN,
     CPAK_IO_ERR_FILE_SEEK, CPAK_IO_ERR_FILE_FTELL, CPAK_IO_ERR_PROBE_BANKS,
     CPAK_IO_ERR_TOO_LARGE, CPAK_IO_ERR_FILE_READ, CPAK_IO_ERR_PAK_WRITE}
BackupErrors ==
    {CPAK_IO_ERR_NO_PAK, CPAK_IO_ERR_ALLOC, CPAK_IO_ERR_FILE_OPEN,
     CPAK_IO_ERR_PAK_READ, CPAK_IO_ERR_FILE_WRITE}

\* C19 as stated: the error a failed vcpak_restore_to_physical or
\* vcpak_backup_from_physical returns tells its failure kind: no failure of
\* another kind makes the same operation return the same error.
C19_KindsDistinguishable ==
    /\ (Restored /\ ViaVcpak /\ xfer.err \in RestoreErrors) =>
          \A e \in RestoreErrors :
              FailureKind(e) # FailureKind(xfer.err)
                  => vcpak_restore_err(e) # xfer.ret
    /\ (BackedUp /\ xfer.err \in BackupErrors) =>
          \A e \in BackupErrors :
              FailureKind(e) # FailureKind(xfer.err)
                  => vcpak_backup_err(e) # xfer.ret

\* C20: a restore to a port without a pak fails with the no-pak error
\* (VCPAK_ERR_NO_CPAK; in the dump-info view the "No Controller Pak detected"
\* message), writes nothing to a pak and leaves the image file as it was.
C20_NoDeviceNoWrite ==
    (Restored /\ ~xfer.device_before.present) =>
        /\ ViaVcpak => xfer.ret = VCPAK_ERR_NO_CPAK
        /\ ViaDumpInfo => /\ xfer.ret = "false"
                          /\ xfer.message.text = "No Controller Pak detected"
        /\ NoDeviceWrite
        /\ xfer.log = << >>
        /\ dump = xfer.dump_before

C20_Witness ==
    /\ Restored /\ ViaVcpak /\ ~xfer.device_before.present
    /\ xfer.f = NoFault
    /\ xfer.dump_before.exists /\ ImageBanks = 1
    /\ xfer.ret = VCPAK_ERR_NO_CPAK

\* C21: a restore whose capacity probe reports an invalid bank count (< 1)
\* fails with the corrupted error (VCPAK_ERR_CORRUPTED; in the dump-info view
\* the "Cannot probe Controller Pak banks" message) and nothing was written
\* to the pak.
C21_InvalidProbeIsCorrupted ==
    (Restored /\ xfer.dump_before.exists /\ ReachedSizing /\ ~xfer.f.probe_ok) =>
        /\ xfer.err = CPAK_IO_ERR_PROBE_BANKS
        /\ ViaVcpak => xfer.ret = VCPAK_ERR_CORRUPTED
        /\ ViaDumpInfo =>
              /\ xfer.ret = "false"
              /\ xfer.message.text = "Cannot probe Controller Pak banks"
        /\ NoDeviceWrite
        /\ xfer.log = << >>

\* a one-bank image, a pak whose probe fails
C21_Witness ==
    /\ Restored /\ ViaVcpak /\ xfer.device_before.present
    /\ ~xfer.f.probe_ok
    /\ ImageBanks = 1 /\ xfer.dump_before.exists
    /\ xfer.ret = VCPAK_ERR_CORRUPTED
    /\ device.banks = xfer.device_before.banks

\* the backup met an inconclusive probe and no other fault
ProbeInconclusiveOnly ==
    /\ BackedUp /\ xfer.device_before.present
    /\ ~xfer.f.probe_ok
    /\ xfer.f.malloc_ok /\ xfer.f.fopen_ok
    /\ xfer.f.fail_kind = "none"

-----------------------------------------------------------------------------
(* Pak catalog: strings *)

\* Names, titles and paths of the catalog are C strings, modelled as
\* sequences of one-character strings; NUL is the byte 0.
NUL == "NUL"
UpperCase == <<"A", "B", "C", "D", "E", "F", "G", "H", "I", "J", "K", "L", "M",
               "N", "O", "P", "Q", "R", "S", "T", "U", "V", "W", "X", "Y", "Z">>
LowerCase == <<"a", "b", "c", "d", "e", "f", "g", "h", "i", "j", "k", "l", "m",
               "n", "o", "p", "q", "r", "s", "t", "u", "v", "w", "x", "y", "z">>
DigitChars == <<"0", "1", "2", "3", "4", "5", "6", "7", "8", "9">>

InSeq(c, chars) == \E i \in 1..Len(chars) : chars[i] = c

\* tolower of the C locale
tolower(c) ==
    IF InSeq(c, UpperCase)
    THEN LowerCase[CHOOSE i \in 1..Len(UpperCase) : UpperCase[i] = c]
    ELSE c

\* strrchr(str, c): the position of the last c in str, 0 for NULL
strrchr(str, c) ==
    LET at == {i \in 1..Len(str) : str[i] = c} IN
    IF at = {} THEN 0 ELSE CHOOSE i \in at : \A j \in at : j <= i

\* strcmp / strcasecmp, as far as the code uses them: 0 iff equal
strcmp(a, b) == IF a = b THEN 0 ELSE 1
strcasecmp(a, b) ==
    IF Len(a) = Len(b) /\ \A i \in 1..Len(a) : tolower(a[i]) = tolower(b[i])
    THEN 0 ELSE 1

\* the C string in a buffer: the bytes before the first NUL
cstring(buf) ==
    LET at == {i \in 1..Len(buf) : buf[i] = NUL} IN
    IF at = {} THEN buf
    ELSE SubSeq(buf, 1, (CHOOSE i \in at : \A j \in at : i <= j) - 1)

\* strncpy(dst, src, n); dst[n] = '\0': the string dst then holds
strncpy(src, n) == SubSeq(cstring(src), 1, Min(Len(cstring(src)), n))

\* sizes of the members of vcpak_entry_t
SizeofFilename == 64
SizeofFullPath == 256

StoragePrefixChars == <<"s", "d", ":", "/">>
BaseDirChars == <<"c", "p", "a", "k", "_", "s", "a", "v", "e", "s">>
DotPak == <<".", "p", "a", "k">>

\* memcpy(safe_code, game_code, 4); safe_code[4] = '\0'
safe_code(game_code) == cstring(SubSeq(game_code, 1, 4))

\* path_init(storage_prefix, VCPAK_SAVES_BASE_DIR)
BasePath == StoragePrefixChars \o BaseDirChars

\* path_push(path, name) / path_clone_push(path, name)
path_push(path, name) == path \o <<"/">> \o name

\* the game's directory
GameDirPath(game_code) == path_push(BasePath, safe_code(game_code))

\* directory_exists(path)
directory_exists(d, path) == path \in d.dirs

-----------------------------------------------------------------------------
(* Pak catalog: vcpak_list_paks *)

\* int capacity = 16
InitialCapacity == 16

\* ext = strrchr(d_name, '.'); the entry is skipped
\* if (!ext || strcasecmp(ext, ".pak") != 0)
MutantExtCaseSensitive(d_name) ==
    LET ext == strrchr(d_name, ".") IN
    /\ ext # 0
    /\ strcmp(SubSeq(d_name, ext, Len(d_name)), DotPak) = 0

HasPakExt(d_name) ==
    LET ext == strrchr(d_name, ".") IN
    /\ ext # 0
    /\ strcasecmp(SubSeq(d_name, ext, Len(d_name)), DotPak) = 0

\* the entry the loop populates for d_name
PakEntry(game_dir, d_name, last_used_filename) ==
    LET filename == strncpy(d_name, SizeofFilename - 1) IN
    [filename |-> filename,
     full_path |-> strncpy(path_push(game_dir, d_name), SizeofFullPath - 1),
     is_last_used |-> /\ last_used_filename # << >>
                      /\ strcmp(filename, last_used_filename) = 0]

RECURSIVE ScanNames(_, _, _, _, _, _)
\* the do-while over the directory from entry i on; st: entries, count,
\* capacity, selected so far, alloc_failed once a realloc failed
ScanNames(names, i, st, game_dir, last_used_filename, f) ==
    IF i > Len(names) THEN st
    ELSE IF ~HasPakExt(names[i])
    THEN ScanNames(names, i + 1, st, game_dir, last_used_filename, f)
    ELSE
    LET grow == st.count >= st.capacity
        capacity == IF grow THEN st.capacity * 2 ELSE st.capacity
    IN
    IF grow /\ f.realloc_fail_at = capacity
    THEN [st EXCEPT !.entries = << >>, !.capacity = capacity,
                    !.alloc_failed = TRUE]
    ELSE
    LET entry == PakEntry(game_dir, names[i], last_used_filename) IN
    ScanNames(names, i + 1,
              [entries |-> Append(st.entries, entry),
               count |-> st.count + 1,
               capacity |-> capacity,
               selected |-> IF entry.is_last_used THEN st.count ELSE st.selected,
               alloc_failed |-> FALSE],
              game_dir, last_used_filename, f)

\* if (out_list->selected < 0 && count > 0) out_list->selected = 0
DefaultSelection(selected, count) ==
    IF selected < 0 /\ count > 0 THEN 0 ELSE selected

\* the branch for a game directory that does not exist
MutantMissingDirectoryIsError(out) ==
    [ret |-> VCPAK_ERR_FILE_NOT_FOUND, out |-> [out EXCEPT !.count = 0]]

ListMissingDirectory(out) ==
    [ret |-> VCPAK_OK, out |-> [out EXCEPT !.count = 0]]

\* vcpak_list_paks(storage_prefix, game_code, last_used_filename, out_list)
\* on the storage d; an empty last_used_filename stands for NULL and "".
\* Result: [ret, out], out the vcpak_list_t.
vcpak_list_paks(d, game_code, last_used_filename, f) ==
    LET game_dir == GameDirPath(game_code)
        out0 == [entries |-> << >>, entries_null |-> TRUE, count |-> 0,
                 selected |-> -1,
                 game_code |-> strncpy(game_code, 4)]
    IN
    IF ~f.malloc_ok
    THEN [ret |-> VCPAK_ERR_ALLOC, out |-> out0]
    ELSE
    LET out1 == [out0 EXCEPT !.entries_null = FALSE] IN
    IF ~directory_exists(d, game_dir)
    THEN ListMissingDirectory(out1)
    ELSE
    LET st0 == [entries |-> << >>, count |-> 0, capacity |-> InitialCapacity,
                selected |-> -1, alloc_failed |-> FALSE]
        st == IF d.names # << >>
              THEN ScanNames(d.names, 1, st0, game_dir, last_used_filename, f)
              ELSE st0
    IN
    IF st.alloc_failed
    THEN [ret |-> VCPAK_ERR_ALLOC,
          out |-> [out0 EXCEPT !.selected = st.selected]]
    ELSE [ret |-> VCPAK_OK,
          out |-> [out1 EXCEPT !.entries = st.entries, !.count = st.count,
                               !.selected = DefaultSelection(st.selected, st.count)]]

\* vcpak_list_free(list)
vcpak_list_free(list) ==
    [list EXCEPT !.entries = << >>, !.entries_null = TRUE, !.count = 0,
                 !.selected = -1]

-----------------------------------------------------------------------------
(* Pak catalog: the directories listed (specification SpecList) *)

\* directories hold up to MaxNames entries
MaxNames == 18

GameCode == <<"N", "S", "M", "E">>
OtherGameCode == <<"N", "M", "K", "E">>

TwoDigits(i) == <<DigitChars[((i \div 10) % 10) + 1], DigitChars[(i % 10) + 1]>>

\* the shapes of entry names: image extension in lower, upper and mixed
\* case, another extension, none, the image extension not last, no dot,
\* a longer extension
NameKinds == <<"lower", "upper", "mixed", "txt", "none", "bak", "nodot", "pakx">>

NameOf(kind, i) ==
    CASE kind = "lower" -> <<"p">> \o TwoDigits(i) \o DotPak
      [] kind = "upper" -> <<"P">> \o TwoDigits(i) \o <<".", "P", "A", "K">>
      [] kind = "mixed" -> <<"m">> \o TwoDigits(i) \o <<".", "P", "a", "K">>
      [] kind = "txt"   -> <<"t">> \o TwoDigits(i) \o <<".", "t", "x", "t">>
      [] kind = "none"  -> <<"n">> \o TwoDigits(i)
      [] kind = "bak"   -> <<"k">> \o TwoDigits(i) \o DotPak \o <<".", "b", "a", "k">>
      [] kind = "nodot" -> <<"x">> \o TwoDigits(i) \o <<"p", "a", "k">>
      [] kind = "pakx"  -> <<"b">> \o TwoDigits(i) \o DotPak \o <<"x">>

RECURSIVE DirNames(_, _, _)
\* n entries; entry i has the kind number (a * i + b) mod the number of kinds
DirNames(n, a, b) ==
    IF n = 0 THEN << >>
    ELSE Append(DirNames(n - 1, a, b),
                NameOf(NameKinds[((a * n + b) % Len(NameKinds)) + 1], n))

RECURSIVE MixedNames(_)
\* n entries: a file that is no image, then images with the extension in
\* lower, upper and mixed case in turn
MixedNames(n) ==
    IF n = 1 THEN <<NameOf("bak", 1)>>
    ELSE Append(MixedNames(n - 1), NameOf(NameKinds[(n % 3) + 1], n))

RECURSIVE Repeat(_, _)
Repeat(c, n) == IF n = 0 THEN << >> ELSE Append(Repeat(c, n - 1), c)

\* an image name of SizeofFilename + 4 characters
LongName(c) == Repeat("L", SizeofFilename - 1) \o <<c>> \o DotPak

\* directories with names the kinds do not cover: two long names with the
\* same first SizeofFilename - 1 characters; the extension alone, two dots
\* in the name, the entries "." and ".."
OddDirs ==
    {<<LongName("x"), LongName("y")>>,
     <<LongName("x")>>,
     <<DotPak, <<"a", ".", "b">> \o DotPak, <<".">>, <<".", ".">>>>}

\* the storages vcpak_list_paks is called on
ListDirs ==
    {[dirs |-> {}, names |-> << >>], [dirs |-> {BasePath}, names |-> << >>]}
      \cup {[dirs |-> {BasePath, GameDirPath(GameCode)}, names |-> ns] :
               ns \in {DirNames(n, a, b) : n \in 0..MaxNames, a \in {0, 1},
                                           b \in 0..(Len(NameKinds) - 1)}
                        \cup {MixedNames(MaxNames)} \cup OddDirs}

\* a name no directory holds
MissingName == <<"z", "z">> \o DotPak

\* the last-used names vcpak_list_paks is called with on names
LastUsedNames(names) ==
    {<< >>, MissingName}
      \cup {names[i] : i \in {1, 2, InitialCapacity, InitialCapacity + 1,
                              Len(names)} \cap DOMAIN names}
      \cup {strncpy(names[i], SizeofFilename - 1) : i \in {1, 2} \cap DOMAIN names}

ListFaults ==
    {ListNoFault,
     [ListNoFault EXCEPT !.malloc_ok = FALSE],
     [ListNoFault EXCEPT !.realloc_fail_at = 2 * InitialCapacity]}

InitList ==
    /\ fs = EmptyFs
    /\ IdleJournal
    /\ IdleRecovery
    /\ IdleImage
    /\ IdleSelect
    /\ IdleSaver
    /\ IdleTransfer
    /\ gamedir \in ListDirs
    /\ listing = NoListing
    /\ gen = NoGen
    /\ ens = NoEns

\* a view lists the paks of a game into its list, which holds nothing
ListPaks(game_code, last_used_filename, f) ==
    LET r == vcpak_list_paks(gamedir, game_code, last_used_filename, f) IN
    /\ ~listing.called
    /\ listing' = [called |-> TRUE, ret |-> r.ret, out |-> r.out,
                   game_code |-> game_code,
                   last_used |-> last_used_filename, f |-> f]
    /\ UNCHANGED <<gamedir, gen, ens, journalVars, recoveryVars, imageVars,
                   transferVars, selectVars, saverVars>>

\* the view frees the list
ListFree ==
    /\ listing.called
    /\ listing' = [NoListing EXCEPT !.out = vcpak_list_free(listing.out)]
    /\ UNCHANGED <<gamedir, gen, ens, journalVars, recoveryVars, imageVars,
                   transferVars, selectVars, saverVars>>

NextList ==
    \/ \E game_code \in {GameCode, OtherGameCode},
          last_used_filename \in LastUsedNames(gamedir.names),
          f \in ListFaults :
          ListPaks(game_code, last_used_filename, f)
    \/ ListFree

SpecList == InitList /\ [][NextList]_vars

-----------------------------------------------------------------------------
(* Pak catalog: properties of vcpak_list_paks (specification SpecList) *)

Listed == listing.called
ListedOk == Listed /\ listing.ret = VCPAK_OK
ListedDirExists == directory_exists(gamedir, GameDirPath(listing.game_code))

\* positions of the listing marked as last used, and those named last_used
MarkedEntries ==
    {i \in 1..Len(listing.out.entries) : listing.out.entries[i].is_last_used}
MatchingEntries ==
    {i \in 1..Len(listing.out.entries) :
        /\ listing.last_used # << >>
        /\ listing.out.entries[i].filename = listing.last_used}

\* C23 as stated: when last_used_filename equals the name of an entry of the
\* listing, exactly one entry is marked is_last_used and selected is its
\* index; when it equals none and the listing is not empty, no entry is
\* marked and selected is 0.
C23_ExactlyOneLastUsed ==
    ListedOk =>
        /\ MatchingEntries # {} =>
              /\ Cardinality(MarkedEntries) = 1
              /\ \A i \in MarkedEntries : listing.out.selected = i - 1
        /\ (MatchingEntries = {} /\ listing.out.count > 0) =>
              /\ MarkedEntries = {}
              /\ listing.out.selected = 0

\* the listing holds nothing and selects "create new"
EmptyListing ==
    /\ listing.out.entries = << >>
    /\ listing.out.count = 0
    /\ listing.out.selected = -1

\* C24 as stated: listing a game directory that does not exist returns
\* VCPAK_OK with an empty listing (count 0) and selected = -1, never an error.
C24_MissingDirectoryNeverError ==
    (Listed /\ ~ListedDirExists) => (listing.ret = VCPAK_OK /\ EmptyListing)

\* C24, amended: listing a game directory that does not exist returns an
\* empty listing (count 0) with selected = -1; the result is VCPAK_OK unless
\* the allocation of the entry array, made before the directory is looked
\* at, fails, and VCPAK_ERR_ALLOC then.
C24_MissingDirectoryEmptyListing ==
    (Listed /\ ~ListedDirExists) =>
        /\ EmptyListing
        /\ listing.f.malloc_ok => (listing.ret = VCPAK_OK /\ ~listing.out.entries_null)
        /\ ~listing.f.malloc_ok => (listing.ret = VCPAK_ERR_ALLOC /\ listing.out.entries_null)

\* the base directory is there, the game's is not, a last-used name is given
C24_Witness ==
    /\ Listed /\ ~ListedDirExists
    /\ gamedir.dirs = {BasePath}
    /\ listing.last_used = MissingName
    /\ listing.f.malloc_ok
    /\ listing.ret = VCPAK_OK
    /\ listing.out.selected = -1

\* name ends in ".pak", letters compared without case
EndsInPak(name) ==
    /\ Len(name) >= Len(DotPak)
    /\ \A i \in 1..Len(DotPak) :
          tolower(name[Len(name) - Len(DotPak) + i]) = DotPak[i]

\* the names of the directory that end in the image extension, in order
PakNames == SelectSeq(gamedir.names, EndsInPak)

\* C25: the listing holds, in enumeration order, exactly the entries of the
\* directory whose name ends in ".pak" compared without case (one entry
\* each, with the name and the path of the directory entry cut to the sizes
\* of the entry's members), whatever their number.
C25_ExactlyThePakEntries ==
    (ListedOk /\ ListedDirExists) =>
        /\ listing.out.count = Len(PakNames)
        /\ Len(listing.out.entries) = Len(PakNames)
        /\ \A i \in 1..Len(PakNames) :
              /\ listing.out.entries[i].filename =
                    SubSeq(PakNames[i], 1, Min(Len(PakNames[i]), SizeofFilename - 1))
              /\ listing.out.entries[i].full_path =
                    GameDirPath(listing.game_code) \o <<"/">> \o PakNames[i]

\* more image files than the initial capacity, in three spellings of the
\* extension, among other files
C25_Witness ==
    /\ ListedOk /\ ListedDirExists
    /\ listing.out.count > InitialCapacity
    /\ \E i, j, k \in 1..Len(gamedir.names) :
          /\ gamedir.names[i] = NameOf("upper", i)
          /\ gamedir.names[j] = NameOf("mixed", j)
          /\ gamedir.names[k] = NameOf("bak", k)
    /\ \E i \in 1..Len(listing.out.entries), j \in 1..Len(gamedir.names) :
          listing.out.entries[i].filename = NameOf("upper", j)

\* C26 as stated: when an allocation fails, the listing returns
\* VCPAK_ERR_ALLOC and holds nothing: no entries, count 0 and selected = -1.
C26_AllocFailureDiscardsAll ==
    (Listed /\ listing.ret = VCPAK_ERR_ALLOC) =>
        (listing.out.entries_null /\ EmptyListing)

-----------------------------------------------------------------------------
(* Pak catalog: vcpak_generate_filename *)

VCPAK_MAX_PAK_NUMBER == 999

\* the bytes of the ROM header's title the loop looks at
TitleBytes == 20

\* sizeof(new_pak_filename), the out_size the select view passes
SizeofNewPakFilename == 64

\* (c >= 'A' && c <= 'Z') || (c >= 'a' && c <= 'z') || (c >= '0' && c <= '9')
MutantKeepsSpace(c) ==
    InSeq(c, UpperCase) \/ InSeq(c, LowerCase) \/ InSeq(c, DigitChars) \/ c = " "

IsAsciiAlnum(c) ==
    InSeq(c, UpperCase) \/ InSeq(c, LowerCase) \/ InSeq(c, DigitChars)

RECURSIVE CleanTitle(_, _, _, _)
\* for (i = 0; i < 20 && game_title[i] != '\0' && j < 20; i++) from i on;
\* clean: clean_title[0..j-1]; last_read: the highest index of game_title
\* read so far (-1: none)
CleanTitle(game_title, i, clean, last_read) ==
    IF ~(i < TitleBytes) THEN [clean_title |-> clean, last_read |-> last_read]
    ELSE IF game_title[i + 1] = NUL
    THEN [clean_title |-> clean, last_read |-> i]
    ELSE IF ~(Len(clean) < TitleBytes)
    THEN [clean_title |-> clean, last_read |-> i]
    ELSE CleanTitle(game_title, i + 1,
                    IF IsAsciiAlnum(game_title[i + 1])
                    THEN Append(clean, game_title[i + 1]) ELSE clean,
                    i)

RECURSIVE Decimal(_)
\* the digits of n >= 0 as printf prints them
Decimal(n) ==
    IF n < 10 THEN <<DigitChars[n + 1]>>
    ELSE Append(Decimal(n \div 10), DigitChars[(n % 10) + 1])

\* "%03d" for i >= 0
FormatD03(i) ==
    LET digits == Decimal(i) IN
    IF Len(digits) >= 3 THEN digits
    ELSE SubSeq(<<"0", "0">>, 1, 3 - Len(digits)) \o digits

\* "%ld"
FormatLd(n) == IF n < 0 THEN <<"-">> \o Decimal(0 - n) ELSE Decimal(n)

\* snprintf(out, out_size, ...): the string out then holds
snprintf(out_size, text) == SubSeq(text, 1, Min(Len(text), out_size - 1))

\* snprintf(out_filename, out_size, "%s_%03d.pak", clean_title, i)
MutantNumberedNameTwoDigits(out_size, clean_title, i) ==
    snprintf(out_size, clean_title \o <<"_">>
                         \o SubSeq(FormatD03(i), 2, Len(FormatD03(i))) \o DotPak)

NumberedName(out_size, clean_title, i) ==
    snprintf(out_size, clean_title \o <<"_">> \o FormatD03(i) \o DotPak)

\* snprintf(out_filename, out_size, "%s_%ld.pak", clean_title, (long)now)
MutantTimestampNameNumbered(out_size, clean_title, now) ==
    snprintf(out_size, clean_title \o <<"_">>
                         \o FormatD03(VCPAK_MAX_PAK_NUMBER) \o DotPak)

TimestampName(out_size, clean_title, now) ==
    snprintf(out_size, clean_title \o <<"_">> \o FormatLd(now) \o DotPak)

\* the files of the game's directory, as the storage's file map
GameFiles(d, game_dir) ==
    IF directory_exists(d, game_dir)
    THEN [p \in {path_push(game_dir, d.names[i]) : i \in 1..Len(d.names)} |-> TRUE]
    ELSE EmptyFs

RECURSIVE FindUnique(_, _, _, _, _, _)
\* the loop for (i = lo; i <= hi; i++) over the numbered names: the first i
\* whose file does not exist, 0 if the loop ends without one
FindUnique(fsys, game_dir, out_size, clean_title, lo, hi) ==
    IF lo = hi
    THEN IF file_exists(fsys, path_push(game_dir, NumberedName(out_size, clean_title, lo)))
         THEN 0 ELSE lo
    ELSE LET mid == (lo + hi) \div 2
             first == FindUnique(fsys, game_dir, out_size, clean_title, lo, mid)
         IN IF first # 0 THEN first
            ELSE FindUnique(fsys, game_dir, out_size, clean_title, mid + 1, hi)

\* vcpak_generate_filename(storage_prefix, game_code, game_title,
\* out_filename, out_size) on the storage d at time now.
\* Result: [ret, name, clean_title, last_read].
vcpak_generate_filename(d, game_code, game_title, out_size, now) ==
    LET game_dir == GameDirPath(game_code)
        cleaned == CleanTitle(game_title, 0, << >>, -1)
        clean_title == IF cleaned.clean_title = << >>
                       THEN strncpy(safe_code(game_code), 31)
                       ELSE cleaned.clean_title
        i == FindUnique(GameFiles(d, game_dir), game_dir, out_size, clean_title,
                        1, VCPAK_MAX_PAK_NUMBER)
    IN
    [ret |-> VCPAK_OK,
     name |-> IF i # 0 THEN NumberedName(out_size, clean_title, i)
              ELSE TimestampName(out_size, clean_title, now),
     clean_title |-> clean_title,
     last_read |-> cleaned.last_read]

-----------------------------------------------------------------------------
(* Pak catalog: the names generated (specification SpecFilename) *)

\* bytes of titles: letters, digit, space, punctuation, a byte above 127
TitleChars == <<"A", " ", "z", NUL, "5", "-", "0x83">>

RECURSIVE PatternTitle(_, _, _)
\* n bytes; byte i is the character number (a * i + b) mod the number of
\* characters
PatternTitle(n, a, b) ==
    IF n = 0 THEN << >>
    ELSE Append(PatternTitle(n - 1, a, b),
                TitleChars[((a * n + b) % Len(TitleChars)) + 1])

\* a title field: text, padded to TitleBytes with c
PadTitle(text, c) == text \o Repeat(c, TitleBytes - Len(text))

Foo == <<"F", "o", "o">>

\* the title fields and the bytes behind them in memory
GameTitles ==
    {PatternTitle(TitleBytes, a, b) \o tail :
        a \in {0, 1}, b \in 0..(Len(TitleChars) - 1),
        tail \in {<< >>, <<"X", "9">>}}
      \cup {PadTitle(Foo, NUL), PadTitle(<<"F", " ", "o", "-", "o">>, " ") \o <<"X">>}

\* game codes: four bytes of the ROM header
GameCodes == {GameCode, <<"N", "-", NUL, "E">>}

\* values of time(NULL)
GenTimes == {0, 7, 1700000000}

RECURSIVE NumberedNames(_, _, _)
\* the names stem_lo.pak .. stem_hi.pak with three-digit numbers, in order
NumberedNames(stem, lo, hi) ==
    IF lo > hi THEN << >>
    ELSE IF lo = hi THEN <<stem \o <<"_">> \o FormatD03(lo) \o DotPak>>
    ELSE LET mid == (lo + hi) \div 2 IN
         NumberedNames(stem, lo, mid) \o NumberedNames(stem, mid + 1, hi)

\* the storages vcpak_generate_filename is called on
GenDirs ==
    {[dirs |-> {BasePath}, names |-> << >>]}
      \cup {[dirs |-> {BasePath, GameDirPath(GameCode)}, names |-> ns] :
              ns \in {NumberedNames(Foo, 1, k) :
                         k \in {0, 1, 10, VCPAK_MAX_PAK_NUMBER - 1,
                                VCPAK_MAX_PAK_NUMBER}}
                      \cup {NumberedNames(Foo, 1, 3) \o NumberedNames(Foo, 5, 10),
                            NumberedNames(Foo, 2, 5),
                            NumberedNames(Foo, 1, VCPAK_MAX_PAK_NUMBER)
                               \o <<Foo \o <<"_">> \o Decimal(1700000000) \o DotPak>>,
                            <<NameOf("lower", 1), NameOf("txt", 2)>>}}

InitFilename ==
    /\ fs = EmptyFs
    /\ IdleJournal
    /\ IdleRecovery
    /\ IdleImage
    /\ IdleSelect
    /\ IdleSaver
    /\ IdleTransfer
    /\ gamedir \in GenDirs
    /\ listing = NoListing
    /\ gen = NoGen
    /\ ens = NoEns

\* the select view generates the name of a new pak
GenerateFilename(game_code, game_title, now) ==
    LET r == vcpak_generate_filename(gamedir, game_code, game_title,
                                     SizeofNewPakFilename, now) IN
    /\ ~gen.called
    /\ gen' = [called |-> TRUE, ret |-> r.ret, name |-> r.name,
               game_code |-> game_code, game_title |-> game_title,
               now |-> now, clean_title |-> r.clean_title,
               last_read |-> r.last_read]
    /\ UNCHANGED <<gamedir, listing, ens, journalVars, recoveryVars, imageVars,
                   transferVars, selectVars, saverVars>>

\* reset_state of the select view: new_pak_filename[0] = '\0'
ResetFilename ==
    /\ gen.called
    /\ gen' = NoGen
    /\ UNCHANGED <<gamedir, listing, ens, journalVars, recoveryVars, imageVars,
                   transferVars, selectVars, saverVars>>

NextFilename ==
    \/ \E game_code \in GameCodes, game_title \in GameTitles, now \in GenTimes :
          GenerateFilename(game_code, game_title, now)
    \/ ResetFilename

SpecFilename == InitFilename /\ [][NextFilename]_vars

-----------------------------------------------------------------------------
(* Pak catalog: properties of vcpak_generate_filename (SpecFilename) *)

Generated == gen.called

\* name is the name of an entry of the directory of the generated name's game
NameExists(name) ==
    /\ GameDirPath(gen.game_code) \in gamedir.dirs
    /\ \E i \in 1..Len(gamedir.names) : gamedir.names[i] = name

\* stem_NNN.pak, NNN the three decimal digits of n in 1..999
ThreeDigitName(stem, n) ==
    stem \o <<"_", DigitChars[(n \div 100) + 1], DigitChars[((n \div 10) % 10) + 1],
              DigitChars[(n % 10) + 1]>> \o DotPak

\* the entries of the game's directory whose name starts with the call's
\* stem and an underscore
StemNames ==
    IF GameDirPath(gen.game_code) \in gamedir.dirs
    THEN {gamedir.names[i] : i \in
             {j \in 1..Len(gamedir.names) :
                 /\ Len(gamedir.names[j]) > Len(gen.clean_title)
                 /\ SubSeq(gamedir.names[j], 1, Len(gen.clean_title) + 1)
                       = gen.clean_title \o <<"_">>}}
    ELSE {}

\* the numbers in 001..999 whose name with the call's stem is free
FreeNumbers ==
    LET taken == StemNames IN
    IF taken = {} THEN 1..VCPAK_MAX_PAK_NUMBER
    ELSE {n \in 1..VCPAK_MAX_PAK_NUMBER :
             ThreeDigitName(gen.clean_title, n) \notin taken}

\* C27 as stated: the generated name never exists in the game's directory at
\* the time of the call; it is <stem>_NNN.pak for the smallest NNN in
\* 001..999 whose file does not exist.
C27_NeverAnExistingName ==
    Generated =>
        /\ ~NameExists(gen.name)
        /\ FreeNumbers # {} =>
              \E n \in FreeNumbers :
                  /\ \A m \in FreeNumbers : n <= m
                  /\ gen.name = ThreeDigitName(gen.clean_title, n)

\* C27, amended: while one of <stem>_001.pak .. <stem>_999.pak is free, the
\* generated name does not exist in the game's directory at the time of the
\* call and is <stem>_NNN.pak for the smallest free NNN; once all 999 exist
\* the name is the timestamp name, which may exist.
C27_SmallestFreeNumber ==
    (Generated /\ FreeNumbers # {}) =>
        /\ gen.ret = VCPAK_OK
        /\ ~NameExists(gen.name)
        /\ \E n \in FreeNumbers :
              /\ \A m \in FreeNumbers : n <= m
              /\ gen.name = ThreeDigitName(gen.clean_title, n)

\* Foo_001.pak .. Foo_010.pak are there: Foo_011.pak
C27_Witness ==
    /\ Generated
    /\ gamedir.names = NumberedNames(Foo, 1, 10)
    /\ gen.clean_title = Foo
    /\ gen.name = <<"F", "o", "o", "_", "0", "1", "1", ".", "p", "a", "k">>

\* the ASCII letters and digits
AsciiLettersDigits ==
    {UpperCase[i] : i \in 1..Len(UpperCase)}
      \cup {LowerCase[i] : i \in 1..Len(LowerCase)}
      \cup {DigitChars[i] : i \in 1..Len(DigitChars)}

IsLetterOrDigit(c) == c \in AsciiLettersDigits

\* the title of the call: its first 20 bytes up to the first NUL
TitleText == cstring(SubSeq(gen.game_title, 1, TitleBytes))

\* C28: the stem is made of the ASCII letters and digits of the title's
\* first 20 bytes (up to its NUL), in order, and of nothing else; no byte at
\* index 20 or above is read; the stem is the game code when the title has
\* no letter or digit.
C28_StemFromFirstTwentyBytes ==
    Generated =>
        /\ gen.last_read < TitleBytes
        /\ SelectSeq(TitleText, IsLetterOrDigit) # << >> =>
              /\ gen.clean_title = SelectSeq(TitleText, IsLetterOrDigit)
              /\ \A i \in 1..Len(gen.clean_title) :
                    gen.clean_title[i] \in AsciiLettersDigits
        /\ SelectSeq(TitleText, IsLetterOrDigit) = << >> =>
              gen.clean_title = cstring(SubSeq(gen.game_code, 1, 4))
        /\ SubSeq(gen.name, 1, Len(gen.clean_title)) = gen.clean_title

\* a space-padded title with punctuation and bytes behind the field
C28_Witness ==
    /\ Generated
    /\ gen.game_title = PadTitle(<<"F", " ", "o", "-", "o">>, " ") \o <<"X">>
    /\ gen.clean_title = Foo
    /\ gen.last_read = TitleBytes - 1

\* C29: when <stem>_001.pak .. <stem>_999.pak all exist, the call still
\* returns VCPAK_OK, with the name <stem>_<time>.pak, time in decimal.
C29_TimestampFallback ==
    (Generated /\ FreeNumbers = {}) =>
        /\ gen.ret = VCPAK_OK
        /\ gen.name = gen.clean_title \o <<"_">> \o FormatLd(gen.now) \o DotPak

C29_Witness ==
    /\ Generated /\ FreeNumbers = {}
    /\ gen.now = 1700000000
    /\ ~NameExists(gen.name)
    /\ gen.name = <<"F", "o", "o", "_", "1", "7", "0", "0", "0", "0", "0", "0",
                    "0", "0", ".", "p", "a", "k">>

-----------------------------------------------------------------------------
(* Pak catalog: vcpak_ensure_game_directory (specification SpecDirectory) *)

\* directory_create(path): 0 and the directory is there, or an error and
\* nothing changes; creating a directory that exists is an error of mkdir
directory_create(d, path, ok) ==
    IF ok /\ path \notin d.dirs
    THEN [ret |-> 0, d |-> [d EXCEPT !.dirs = @ \cup {path}]]
    ELSE [ret |-> 1, d |-> d]

\* creates without asking directory_exists
MutantEnsureAlwaysCreates(d, game_code, base_create_ok, game_create_ok) ==
    LET base_path == BasePath
        base == directory_create(d, base_path, base_create_ok)
    IN
    IF base.ret # 0
    THEN [ret |-> VCPAK_ERR_DIR_CREATE, d |-> base.d, creates |-> <<base_path>>]
    ELSE
    LET game_path == path_push(base_path, safe_code(game_code))
        game == directory_create(base.d, game_path, game_create_ok)
    IN
    [ret |-> IF game.ret # 0 THEN VCPAK_ERR_DIR_CREATE ELSE VCPAK_OK,
     d |-> game.d, creates |-> <<base_path, game_path>>]

\* vcpak_ensure_game_directory(storage_prefix, game_code) on the storage d;
\* base_create_ok, game_create_ok: the outcome a directory_create would have.
\* Result: [ret, d, creates], creates the paths directory_create was called on.
vcpak_ensure_game_directory(d, game_code, base_create_ok, game_create_ok) ==
    LET base_path == BasePath
        base_there == directory_exists(d, base_path)
        base == IF base_there THEN [ret |-> 0, d |-> d]
                ELSE directory_create(d, base_path, base_create_ok)
        base_log == IF base_there THEN << >> ELSE <<base_path>>
    IN
    IF base.ret # 0
    THEN [ret |-> VCPAK_ERR_DIR_CREATE, d |-> base.d, creates |-> base_log]
    ELSE
    LET game_path == path_push(base_path, safe_code(game_code))
        game_there == directory_exists(base.d, game_path)
        game == IF game_there THEN [ret |-> 0, d |-> base.d]
                ELSE directory_create(base.d, game_path, game_create_ok)
        game_log == IF game_there THEN base_log ELSE Append(base_log, game_path)
    IN
    [ret |-> IF game.ret # 0 THEN VCPAK_ERR_DIR_CREATE ELSE VCPAK_OK,
     d |-> game.d, creates |-> game_log]

\* the storages vcpak_ensure_game_directory is called on
EnsureDirs ==
    {[dirs |-> ds, names |-> << >>] :
        ds \in {{}, {BasePath}, {BasePath, GameDirPath(GameCode)},
                {BasePath, GameDirPath(OtherGameCode)}}}

InitDirectory ==
    /\ fs = EmptyFs
    /\ IdleJournal
    /\ IdleRecovery
    /\ IdleImage
    /\ IdleSelect
    /\ IdleSaver
    /\ IdleTransfer
    /\ gamedir \in EnsureDirs
    /\ listing = NoListing
    /\ gen = NoGen
    /\ ens = NoEns

\* a view makes sure the game's directory is there
EnsureGameDirectory(game_code, base_create_ok, game_create_ok) ==
    LET r == vcpak_ensure_game_directory(gamedir, game_code, base_create_ok,
                                         game_create_ok) IN
    /\ gamedir' = r.d
    /\ ens' = [called |-> TRUE, ret |-> r.ret, game_code |-> game_code,
               base_create_ok |-> base_create_ok,
               game_create_ok |-> game_create_ok,
               before |-> gamedir, creates |-> r.creates,
               prev |-> [called |-> ens.called, ret |-> ens.ret,
                         game_code |-> ens.game_code,
                         base_create_ok |-> ens.base_create_ok,
                         game_create_ok |-> ens.game_create_ok,
                         creates |-> ens.creates]]
    /\ UNCHANGED <<listing, gen, journalVars, recoveryVars, imageVars,
                   transferVars, selectVars, saverVars>>

\* the storage is changed outside the menu: directories are removed
DirectoriesRemoved ==
    /\ gamedir.dirs # {}
    /\ \E ds \in {{}, {BasePath}} :
          /\ ds # gamedir.dirs
          /\ gamedir' = [gamedir EXCEPT !.dirs = ds]
    /\ ens' = NoEns
    /\ UNCHANGED <<listing, gen, journalVars, recoveryVars, imageVars,
                   transferVars, selectVars, saverVars>>

NextDirectory ==
    \/ \E game_code \in {GameCode, OtherGameCode},
          base_create_ok \in BOOLEAN, game_create_ok \in BOOLEAN :
          EnsureGameDirectory(game_code, base_create_ok, game_create_ok)
    \/ DirectoriesRemoved

SpecDirectory == InitDirectory /\ [][NextDirectory]_vars

Ensured == ens.called

\* the call before was made with the same game and met the same outcomes
SameCallTwice ==
    /\ Ensured /\ ens.prev.called
    /\ ens.prev.game_code = ens.game_code
    /\ ens.prev.base_create_ok = ens.base_create_ok
    /\ ens.prev.game_create_ok = ens.game_create_ok

\* C30: vcpak_ensure_game_directory never tries to create a directory that
\* exists; with the base directory and the game's directory there it returns
\* VCPAK_OK and changes nothing; a second call in a row returns what the
\* first returned and leaves the directories as the first left them.
C30_EnsureIdempotent ==
    Ensured =>
        /\ \A i \in 1..Len(ens.creates) : ens.creates[i] \notin ens.before.dirs
        /\ {BasePath, GameDirPath(ens.game_code)} \subseteq ens.before.dirs =>
              /\ ens.ret = VCPAK_OK
              /\ ens.creates = << >>
              /\ gamedir = ens.before
        /\ ens.ret = VCPAK_OK =>
              {BasePath, GameDirPath(ens.game_code)} \subseteq gamedir.dirs
        /\ SameCallTwice =>
              /\ ens.ret = ens.prev.ret
              /\ gamedir = ens.before

\* the first call created both directories, the second finds them
C30_Witness ==
    /\ SameCallTwice
    /\ ens.prev.ret = VCPAK_OK
    /\ ens.prev.creates = <<BasePath, GameDirPath(GameCode)>>
    /\ ens.ret = VCPAK_OK
    /\ ens.creates = << >>
    /\ gamedir.dirs = {BasePath, GameDirPath(GameCode)}

-----------------------------------------------------------------------------
(* Select view, src/menu/views/vcpak_select.c *)

MAX_VISIBLE_ENTRIES == 10
CREATE_NEW_INDEX == -1

\* sizeof(menu->load.vcpak_selected); the member is declared outside the
\* files modelled and taken to be as large as new_pak_full_path
SizeofVcpakSelected == 256

\* the game and the title the view is opened for
SelectTitle == Foo \o <<NUL>>

\* what the environment answers to the calls of one handler: has_cpak(0),
\* remove(), the allocations of vcpak_list_paks, directory_create,
\* the allocation, fopen and fwrite of vcpak_create_empty, time(NULL)
NoSelectFault == [has_cpak |-> TRUE, remove_ok |-> TRUE, scan |-> ListNoFault,
                  base_create_ok |-> TRUE, game_create_ok |-> TRUE,
                  malloc_ok |-> TRUE, fopen_ok |-> TRUE,
                  written |-> CPAK_BANK_SIZE, now |-> 0]

\* reset_state()
reset_state(sv) ==
    [sv EXCEPT !.scroll_offset = 0, !.show_no_cpak_warning = FALSE,
               !.show_delete_confirm = FALSE, !.show_creating_pak = FALSE,
               !.show_create_error = FALSE,
               !.create_error_message = [text |-> "", code |-> "none"],
               !.new_pak_filename = << >>, !.new_pak_full_path = << >>]

\* get_selected_index()
get_selected_index(sv) == sv.pak_list.selected

\* no wrap: the selection stops at Create New and at the last entry
MutantMoveNoWrap(sv, delta) ==
    LET raw == sv.pak_list.selected + delta
        new_sel == IF raw < CREATE_NEW_INDEX THEN CREATE_NEW_INDEX
                   ELSE IF raw >= sv.pak_list.count THEN sv.pak_list.count - 1
                   ELSE raw
    IN [sv EXCEPT !.pak_list.selected = new_sel]

\* move_selection(delta)
move_selection(sv, delta) ==
    LET raw == sv.pak_list.selected + delta
        new_sel == IF raw < CREATE_NEW_INDEX THEN sv.pak_list.count - 1
                   ELSE IF raw >= sv.pak_list.count THEN CREATE_NEW_INDEX
                   ELSE raw
        display_pos == new_sel + 1
        scroll == IF display_pos < sv.scroll_offset THEN display_pos
                  ELSE IF display_pos >= sv.scroll_offset + MAX_VISIBLE_ENTRIES
                  THEN display_pos - MAX_VISIBLE_ENTRIES + 1
                  ELSE sv.scroll_offset
    IN [sv EXCEPT !.pak_list.selected = new_sel, !.scroll_offset = scroll]

\* remove(path) on the storage d: the entry of the game's directory with
\* this path goes, unless the call fails
remove(d, path, ok) ==
    IF ~ok THEN d
    ELSE [d EXCEPT !.names = SelectSeq(@, LAMBDA n :
                                 path_push(GameDirPath(GameCode), n) # path)]

\* the file a successful fopen(pak_path, "wb") leaves in the directory
FileOpened(d, name) ==
    IF InSeq(name, d.names) THEN d ELSE [d EXCEPT !.names = Append(@, name)]

\* the entries the loop of draw renders: entry_idx = i + scroll_offset for
\* i < count and i < MAX_VISIBLE_ENTRIES - 1, up to the first entry_idx that
\* is not below count
DrawnEntries(sv) ==
    {i + sv.scroll_offset :
        i \in {k \in 0..(MAX_VISIBLE_ENTRIES - 2) :
                  /\ k < sv.pak_list.count
                  /\ k + sv.scroll_offset < sv.pak_list.count}}

\* vcpak_get_game_directory(storage_prefix, game_code, out_path, out_size)
vcpak_get_game_directory(game_code, out_size) ==
    strncpy(GameDirPath(game_code), out_size - 1)

\* what a handler of the view leaves: the view, the storage, the image
\* files, the branch taken and the calls made
Handled(sv, d, files, branch) ==
    [select |-> sv, d |-> d, paks |-> files, branch |-> branch,
     removed |-> << >>, remove_ok |-> FALSE, scan |-> NoSelStep.scan,
     ensure_ret |-> "none", create_ret |-> "none", create_path |-> << >>]

\* the delete confirmation of process with enter pressed. The mutant takes
\* the entry out of the live list instead of scanning the directory again
MutantDeleteInPlace(sv, d, files, e) ==
    LET sel == get_selected_index(sv)
        list == sv.pak_list
    IN
    IF sel >= 0 /\ sel < list.count
    THEN LET path == list.entries[sel + 1].full_path
             d2 == remove(d, path, e.remove_ok)
             files2 == IF e.remove_ok /\ path \in DOMAIN files
                       THEN RemoveFile(files, path) ELSE files
             kept == [i \in 1..(list.count - 1) |->
                         IF i <= sel THEN list.entries[i] ELSE list.entries[i + 1]]
         IN [Handled([sv EXCEPT !.pak_list.entries = kept,
                                !.pak_list.count = list.count - 1,
                                !.show_delete_confirm = FALSE],
                     d2, files2, "delete")
               EXCEPT !.removed = path, !.remove_ok = e.remove_ok,
                      !.scan = [called |-> FALSE, ret |-> "none", f |-> e.scan]]
    ELSE Handled([sv EXCEPT !.show_delete_confirm = FALSE], d, files,
                 "delete_nothing")

\* process, lines 99-112: remove the file of the selected entry, free the
\* list, list the directory again
ConfirmDelete(sv, d, files, e) ==
    LET sel == get_selected_index(sv) IN
    IF sel >= 0 /\ sel < sv.pak_list.count
    THEN LET path == sv.pak_list.entries[sel + 1].full_path
             d2 == remove(d, path, e.remove_ok)
             files2 == IF e.remove_ok /\ path \in DOMAIN files
                       THEN RemoveFile(files, path) ELSE files
             r == vcpak_list_paks(d2, GameCode, sv.last_cpak_file, e.scan)
         IN [Handled([sv EXCEPT !.pak_list = r.out,
                                !.show_delete_confirm = FALSE],
                     d2, files2, "delete")
               EXCEPT !.removed = path, !.remove_ok = e.remove_ok,
                      !.scan = [called |-> TRUE, ret |-> r.ret, f |-> e.scan]]
    ELSE Handled([sv EXCEPT !.show_delete_confirm = FALSE], d, files,
                 "delete_nothing")

\* hands over although the image was not created
MutantCreateIgnoresError(sv, d, files, e) ==
    LET name == vcpak_generate_filename(d, GameCode, SelectTitle,
                                        SizeofNewPakFilename, e.now).name
        game_dir == vcpak_get_game_directory(GameCode, SizeofFullPath)
        full_path == snprintf(SizeofFullPath, game_dir \o <<"/">> \o name)
        dir == vcpak_ensure_game_directory(d, GameCode, e.base_create_ok,
                                           e.game_create_ok)
    IN
    [Handled([sv EXCEPT !.show_creating_pak = TRUE,
                        !.new_pak_filename = name,
                        !.new_pak_full_path = full_path,
                        !.vcpak_enabled = TRUE,
                        !.vcpak_selected = strncpy(full_path, SizeofVcpakSelected - 1),
                        !.last_cpak_file = name,
                        !.pak_list = vcpak_list_free(sv.pak_list),
                        !.load_pending_rom_file = TRUE,
                        !.next_mode = "MENU_MODE_LOAD_ROM"],
             dir.d, files, "create")
       EXCEPT !.ensure_ret = dir.ret, !.create_ret = VCPAK_ERR_IO,
              !.create_path = full_path]

\* process, lines 136-189: Create New was chosen. The image file shows in
\* the directory once fopen succeeded; its bytes are those of SpecImage and
\* are not kept here
CreateNew(sv, d, files, e) ==
    LET name == vcpak_generate_filename(d, GameCode, SelectTitle,
                                        SizeofNewPakFilename, e.now).name
        game_dir == vcpak_get_game_directory(GameCode, SizeofFullPath)
        full_path == snprintf(SizeofFullPath, game_dir \o <<"/">> \o name)
        sv1 == [sv EXCEPT !.show_creating_pak = TRUE,
                          !.new_pak_filename = name,
                          !.new_pak_full_path = full_path]
        dir == vcpak_ensure_game_directory(d, GameCode, e.base_create_ok,
                                           e.game_create_ok)
    IN
    IF dir.ret # VCPAK_OK
    THEN [Handled([sv1 EXCEPT !.show_creating_pak = FALSE,
                              !.show_create_error = TRUE,
                              !.create_error_message =
                                  [text |-> "Failed to create pak directory.",
                                   code |-> dir.ret]],
                  dir.d, files, "create_dir_failed")
            EXCEPT !.ensure_ret = dir.ret]
    ELSE
    LET c == [ret |-> vcpak_create_empty_ret(e.malloc_ok, e.fopen_ok, e.written),
              paks |-> files]
        d2 == IF e.malloc_ok /\ e.fopen_ok THEN FileOpened(dir.d, name)
              ELSE dir.d
    IN
    IF c.ret # VCPAK_OK
    THEN [Handled([sv1 EXCEPT !.show_creating_pak = FALSE,
                              !.show_create_error = TRUE,
                              !.create_error_message =
                                  [text |-> "Failed to create pak file.",
                                   code |-> c.ret]],
                  d2, c.paks, "create_file_failed")
            EXCEPT !.ensure_ret = dir.ret, !.create_ret = c.ret,
                   !.create_path = full_path]
    ELSE [Handled([sv1 EXCEPT
                      !.vcpak_enabled = TRUE,
                      !.vcpak_selected = strncpy(full_path, SizeofVcpakSelected - 1),
                      !.last_cpak_file = name,
                      !.pak_list = vcpak_list_free(sv.pak_list),
                      !.load_pending_rom_file = TRUE,
                      !.next_mode = "MENU_MODE_LOAD_ROM"],
                  d2, c.paks, "create")
            EXCEPT !.ensure_ret = dir.ret, !.create_ret = c.ret,
                   !.create_path = full_path]

\* process, lines 190-205: an entry of the list was chosen
SelectExisting(sv, d, files) ==
    LET entry == sv.pak_list.entries[get_selected_index(sv) + 1] IN
    Handled([sv EXCEPT
                !.vcpak_enabled = TRUE,
                !.vcpak_selected = strncpy(entry.full_path, SizeofVcpakSelected - 1),
                !.last_cpak_file = entry.filename,
                !.pak_list = vcpak_list_free(sv.pak_list),
                !.load_pending_rom_file = TRUE,
                !.next_mode = "MENU_MODE_LOAD_ROM"],
            d, files, "select")

\* process(menu) of vcpak_select.c with menu->actions = actions, the
\* environment answering e. Result: as Handled.
select_process(sv, d, files, actions, e) ==
    LET sel == get_selected_index(sv)
        on_entry == sel >= 0 /\ sel < sv.pak_list.count
    IN
    IF sv.show_no_cpak_warning
    THEN IF actions.enter \/ actions.back
         THEN Handled([sv EXCEPT !.show_no_cpak_warning = FALSE], d, files,
                      "warning_closed")
         ELSE Handled(sv, d, files, "warning")
    ELSE IF sv.show_create_error
    THEN IF actions.enter \/ actions.back
         THEN Handled([sv EXCEPT !.show_create_error = FALSE], d, files,
                      "error_closed")
         ELSE Handled(sv, d, files, "error")
    ELSE IF sv.show_delete_confirm
    THEN IF actions.enter THEN ConfirmDelete(sv, d, files, e)
         ELSE IF actions.back
         THEN Handled([sv EXCEPT !.show_delete_confirm = FALSE], d, files,
                      "delete_cancelled")
         ELSE Handled(sv, d, files, "delete_asked")
    ELSE IF actions.go_up THEN Handled(move_selection(sv, -1), d, files, "up")
    ELSE IF actions.go_down THEN Handled(move_selection(sv, 1), d, files, "down")
    ELSE IF actions.back
    THEN Handled([sv EXCEPT !.pak_list = vcpak_list_free(sv.pak_list),
                            !.next_mode = "MENU_MODE_LOAD_ROM"],
                 d, files, "back")
    ELSE IF actions.enter
    THEN IF sel = CREATE_NEW_INDEX THEN CreateNew(sv, d, files, e)
         ELSE IF on_entry THEN SelectExisting(sv, d, files)
         ELSE Handled(sv, d, files, "enter_nothing")
    ELSE IF actions.options
    THEN IF on_entry
         THEN Handled([sv EXCEPT !.show_delete_confirm = TRUE], d, files,
                      "delete_asked")
         ELSE Handled(sv, d, files, "options_nothing")
    ELSE Handled(sv, d, files, "idle")

\* view_vcpak_select_init(menu) on the storage d, the settings of the ROM
\* naming last_cpak_file. Result: [select, d, ensure_ret, scan].
view_vcpak_select_init(sv, d, last_cpak_file, e) ==
    LET sv1 == [reset_state(sv) EXCEPT
                   !.vcpak_enabled = FALSE, !.vcpak_selected = << >>,
                   !.vcpak_no_physical = ~has_cpak(e.has_cpak),
                   !.show_no_cpak_warning = ~has_cpak(e.has_cpak),
                   !.last_cpak_file = last_cpak_file]
        dir == vcpak_ensure_game_directory(d, GameCode, e.base_create_ok,
                                           e.game_create_ok)
        r == vcpak_list_paks(dir.d, GameCode, last_cpak_file, e.scan)
        list == IF r.out.count = 0
                THEN [r.out EXCEPT !.selected = CREATE_NEW_INDEX]
                ELSE r.out
    IN [select |-> [sv1 EXCEPT !.pak_list = list], d |-> dir.d,
        ensure_ret |-> dir.ret,
        scan |-> [called |-> TRUE, ret |-> r.ret, f |-> e.scan]]

-----------------------------------------------------------------------------
(* The select view as a state machine (specification SpecSelect) *)

\* changes of the game's directory in one visit of the view: confirmed
\* deletions and failed creations
MaxEdits == 1

\* the visits of the view: the storage it is opened on (no directories, an
\* empty game directory, game directories of numbered images, up to MaxNames
\* of them), settings.last_cpak_file of the ROM (none, an image that is
\* gone, an image of the first screen, an image further down) and whether a
\* Controller Pak sits in port 1
SelectVisits ==
    LET dir(k) == [dirs |-> {BasePath, GameDirPath(GameCode)},
                   names |-> NumberedNames(Foo, 1, k)]
        visit(d, l, h) == [d |-> d, last_cpak_file |-> l, has_cpak |-> h]
    IN
    {visit(d, << >>, h) : d \in {NoDir, [NoDir EXCEPT !.dirs = {BasePath}], dir(0)},
                          h \in BOOLEAN}
      \cup {visit(dir(2), l, h) : l \in {<< >>, MissingName, dir(2).names[2]},
                                  h \in BOOLEAN}
      \cup {visit(dir(MAX_VISIBLE_ENTRIES + 1),
                  dir(MAX_VISIBLE_ENTRIES + 1).names[MAX_VISIBLE_ENTRIES + 1], TRUE)}
      \cup {visit(dir(MaxNames), dir(MaxNames).names[2], TRUE)}

\* button states of one frame
SelectActions ==
    {NoActions}
      \cup {[NoActions EXCEPT ![b] = TRUE] :
               b \in {"enter", "back", "go_up", "go_down", "options"}}
      \cup {[NoActions EXCEPT !.enter = TRUE, !.back = TRUE],
            [NoActions EXCEPT !.go_up = TRUE, !.go_down = TRUE]}

\* the entries the user asks to delete: the first, the first one behind the
\* first screen, the last
DeleteAt(count) == {0, MAX_VISIBLE_ENTRIES - 1, count - 1}

\* the branches of process that sel_step names; the others read "other"
RecordedBranches ==
    {"delete", "delete_nothing", "select", "create", "create_dir_failed",
     "create_file_failed", "back"}

\* the one button whose handling calls the environment
EnterPressed == [NoActions EXCEPT !.enter = TRUE]

\* what the environment answers, one fault at a time
SelectFaults ==
    {NoSelectFault,
     [NoSelectFault EXCEPT !.remove_ok = FALSE],
     [NoSelectFault EXCEPT !.scan = [ListNoFault EXCEPT !.malloc_ok = FALSE]],
     [NoSelectFault EXCEPT !.scan = [ListNoFault EXCEPT
                                        !.realloc_fail_at = 2 * InitialCapacity]],
     [NoSelectFault EXCEPT !.base_create_ok = FALSE],
     [NoSelectFault EXCEPT !.game_create_ok = FALSE],
     [NoSelectFault EXCEPT !.malloc_ok = FALSE],
     [NoSelectFault EXCEPT !.fopen_ok = FALSE],
     [NoSelectFault EXCEPT !.written = 0]}

InitSelect ==
    /\ fs = EmptyFs
    /\ IdleJournal
    /\ IdleRecovery
    /\ IdleImage
    /\ IdleSelect
    /\ IdleSaver
    /\ IdleTransfer
    /\ gamedir \in {v.d : v \in SelectVisits}
    /\ listing = NoListing
    /\ gen = NoGen
    /\ ens = NoEns

\* the menu enters the select view for the game
SelectViewInit(last_cpak_file, e) ==
    /\ sel_step.name = "none"
    /\ LET r == view_vcpak_select_init(select, gamedir, last_cpak_file, e) IN
       /\ select' = r.select
       /\ gamedir' = r.d
       /\ sel_step' = [NoSelStep EXCEPT !.name = "init", !.branch = "init",
                                        !.ensure_ret = r.ensure_ret,
                                        !.scan = r.scan]
    /\ UNCHANGED <<listing, gen, ens, journalVars, recoveryVars, imageVars,
                   transferVars, saverVars>>

\* one frame of the view: view_vcpak_select_display runs process
SelectProcess(actions, e) ==
    /\ sel_step.name # "none"
    /\ select.next_mode = MENU_MODE_NONE
    /\ LET r == select_process(select, gamedir, paks, actions, e)
           used == r.branch \in {"delete", "select"}
       IN
       /\ r.branch \in {"delete", "create_file_failed"} =>
             sel_step.edits < MaxEdits
       /\ r.branch = "delete_asked" =>
             get_selected_index(select) \in DeleteAt(select.pak_list.count)
       /\ select' = r.select
       /\ gamedir' = r.d
       /\ paks' = r.paks
       /\ created' = IF r.create_ret = "none" THEN created
                     ELSE [path |-> r.create_path, ret |-> r.create_ret,
                           malloc_ok |-> e.malloc_ok, fopen_ok |-> e.fopen_ok,
                           written |-> e.written, before |-> paks]
       /\ sel_step' =
             [name |-> "process",
              branch |-> IF r.branch \in RecordedBranches THEN r.branch
                         ELSE "other",
              sel |-> IF used THEN get_selected_index(select) ELSE -1,
              list_before |-> IF used THEN select.pak_list ELSE NoList,
              removed |-> r.removed, remove_ok |-> r.remove_ok,
              edits |-> sel_step.edits
                          + (IF r.branch \in {"delete", "create_file_failed"}
                             THEN 1 ELSE 0),
              scan |-> r.scan, ensure_ret |-> r.ensure_ret,
              create_ret |-> r.create_ret, create_path |-> r.create_path]
    /\ UNCHANGED <<listing, gen, ens, journalVars, recoveryVars,
                   transferVars, saverVars>>

NextSelect ==
    \/ \E v \in SelectVisits, e \in SelectFaults :
          /\ v.d = gamedir
          /\ SelectViewInit(v.last_cpak_file, [e EXCEPT !.has_cpak = v.has_cpak])
    \/ \E actions \in SelectActions : SelectProcess(actions, NoSelectFault)
    \/ \E e \in SelectFaults \ {NoSelectFault} : SelectProcess(EnterPressed, e)

SpecSelect == InitSelect /\ [][NextSelect]_vars

-----------------------------------------------------------------------------
(* Select view properties (specification SpecSelect) *)

\* the view is on screen: it was entered and has not handed over
SelectShown == sel_step.name # "none" /\ select.next_mode = MENU_MODE_NONE

\* the last handler was a confirmed deletion of an entry
Deleted == sel_step.name = "process" /\ sel_step.branch = "delete"

\* C31: a confirmed deletion calls remove on the full path of the entry
\* that was selected in the old list, then replaces the list by the result
\* of a new vcpak_list_paks call on the directory as it now is (no entry is
\* taken out of the old list in place); the file is gone from the directory
\* when remove succeeded, and the dialog is closed.
C31_DeleteRescans ==
    Deleted =>
        LET old == sel_step.list_before IN
        /\ sel_step.sel \in 0..(old.count - 1)
        /\ sel_step.removed = old.entries[sel_step.sel + 1].full_path
        /\ sel_step.remove_ok =>
              \A i \in 1..Len(gamedir.names) :
                 path_push(GameDirPath(GameCode), gamedir.names[i]) # sel_step.removed
        /\ sel_step.scan.called
        /\ select.pak_list = vcpak_list_paks(gamedir, GameCode,
                                             select.last_cpak_file,
                                             sel_step.scan.f).out
        /\ ~select.show_delete_confirm

\* an entry behind the first screen was deleted and the new list is one
\* entry shorter, with the selection of a new scan
C31_Witness ==
    /\ Deleted
    /\ sel_step.remove_ok
    /\ sel_step.scan.ret = VCPAK_OK
    /\ sel_step.sel >= MAX_VISIBLE_ENTRIES - 1
    /\ select.pak_list.count = sel_step.list_before.count - 1
    /\ select.pak_list.selected # sel_step.sel

\* C34: while the view is shown, the selected item is Create New or one of
\* the entries draw renders for the current scroll_offset.
C34_SelectionVisible ==
    SelectShown =>
        \/ select.pak_list.selected = CREATE_NEW_INDEX
        \/ select.pak_list.selected \in DrawnEntries(select)

\* C35: while the view is shown, the selection index lies between -1
\* (Create New) and count - 1 of the current list.
C35_SelectionInRange ==
    SelectShown =>
        select.pak_list.selected \in CREATE_NEW_INDEX..(select.pak_list.count - 1)

\* the view handed over to ROM loading
HandedOver == select.next_mode = MENU_MODE_LOAD_ROM

\* C36: vcpak_enabled is set only at a hand-over to ROM loading, and then
\* vcpak_selected is the full path of the entry that was selected in the
\* list, or the path vcpak_create_empty was just called on and returned
\* VCPAK_OK for; when vcpak_ensure_game_directory or vcpak_create_empty
\* fails, the view stays, shows the error and vcpak_enabled is false.
C36_HandoverNamesUsableImage ==
    /\ select.vcpak_enabled =>
          /\ HandedOver
          /\ select.load_pending_rom_file
          /\ \/ /\ sel_step.branch = "select"
                /\ sel_step.sel \in 0..(sel_step.list_before.count - 1)
                /\ select.vcpak_selected =
                      sel_step.list_before.entries[sel_step.sel + 1].full_path
             \/ /\ sel_step.branch = "create"
                /\ sel_step.ensure_ret = VCPAK_OK
                /\ created.ret = VCPAK_OK
                /\ select.vcpak_selected = created.path
                /\ \E i \in 1..Len(gamedir.names) :
                      path_push(GameDirPath(GameCode), gamedir.names[i])
                         = created.path
    /\ (/\ sel_step.name = "process"
        /\ \/ sel_step.ensure_ret \notin {"none", VCPAK_OK}
           \/ sel_step.create_ret \notin {"none", VCPAK_OK}) =>
          /\ ~HandedOver
          /\ select.show_create_error
          /\ ~select.vcpak_enabled
          /\ ~select.load_pending_rom_file

\* a new image was created next to MaxNames others and handed over
C36_Witness ==
    /\ HandedOver
    /\ select.vcpak_enabled
    /\ sel_step.branch = "create"
    /\ Len(gamedir.names) > MaxNames
    /\ select.vcpak_selected =
          path_push(GameDirPath(GameCode), gamedir.names[Len(gamedir.names)])

-----------------------------------------------------------------------------
(* Recovery flow properties (specification SpecRecovery) *)

\* a frame of the recovery view in which the user pressed A on the dialog
\* that asks whether to update the pak (no result box was up)
PressedUpdate ==
    /\ step.name = "view_vcpak_recovery_display"
    /\ step.enter
    /\ ~step.result_shown

\* C33: in the recovery view entered without a Controller Pak, pressing A
\* once the pak sits in the port runs the backup of the pak to the recorded
\* image file.
C33_InsertedPakIsBackedUp ==
    (PressedUpdate /\ view.no_physical_pak /\ step.has_cpak)
        => step.backup # "none"

\* C37: with the virtual pak feature enabled, when view_startup_init selects
\* a mode of normal operation no Dirty journal record is on storage.
C37_NormalOnlyWhenClean ==
    (/\ settings.virtual_cpak_enabled
     /\ step.name = "view_startup_init"
     /\ next_mode \in NormalModes) => ~Dirty(fs)

\* C38: in one boot the recovery view is entered at most once.
C38_RecoveryEnteredOnce == step.recoveries <= 1

-----------------------------------------------------------------------------
(* Order of the calls of a restore (specification SpecTransfer) *)

\* the restore wrote to the device
ReachedWrite == \E i \in 1..Len(xfer.log) : xfer.log[i][1] = "cpak_write"

\* C32: whenever a restore wrote to the device, through
\* vcpak_restore_to_physical or through restore_controller_pak, the caller
\* had called cpakfs_unmount before it called cpak_restore_from_file, the
\* one call that writes.
C32_UnmountBeforeWrite ==
    (Restored /\ ReachedWrite) =>
        \E i, j \in 1..Len(xfer.calls) :
            /\ i < j
            /\ xfer.calls[i] = "cpakfs_unmount"
            /\ xfer.calls[j] = "cpak_restore_from_file"
            /\ \A k \in 1..Len(xfer.calls) :
                  xfer.calls[k] = "cpak_restore_from_file" => k > i

\* vcpak_restore_to_physical wrote bank 0 and failed at a later bank
C32_Witness ==
    /\ Restored
    /\ ViaVcpak
    /\ xfer.err = CPAK_IO_ERR_PAK_WRITE
    /\ xfer.ctx.failed_bank > 0
    /\ ReachedWrite

-----------------------------------------------------------------------------
(* Screensaver of src/menu/screensaver.c (specification SpecSaver) *)

SCREENSAVER_TIMEOUT_SECONDS == 180
SCREENSAVER_FADE_FRAMES == 30

\* A float is the integer number of units of 2^-28 it holds; FloatOne is
\* 1.0f. Every value fade_alpha takes is a multiple of the unit: fade_step
\* lies in [2^-5, 2^-4), where the floats are 2^-28 apart, and sums and
\* differences of multiples below 2^24 units are exact.
FloatOne == 2^28

\* distance between neighbouring floats around v >= 0 (24-bit significand)
FloatQuantum(v) ==
    IF v < 2^24 THEN 1
    ELSE IF v < 2^25 THEN 2
    ELSE IF v < 2^26 THEN 4
    ELSE IF v < 2^27 THEN 8
    ELSE IF v < 2^28 THEN 16
    ELSE 32

\* n / d rounded to the nearest multiple of 1, ties to the even one
RoundDiv(n, d) ==
    LET lo == n \div d
        r  == n - lo * d
    IN  IF 2 * r < d THEN lo
        ELSE IF 2 * r > d THEN lo + 1
        ELSE IF lo % 2 = 0 THEN lo ELSE lo + 1

\* round-to-nearest-even of the exact value v >= 0 to a float
FloatRound(v) == LET q == FloatQuantum(v) IN RoundDiv(v, q) * q

\* 1.0f / SCREENSAVER_FADE_FRAMES
fade_step ==
    LET q == FloatQuantum(FloatOne \div SCREENSAVER_FADE_FRAMES)
    IN  RoundDiv(FloatOne, SCREENSAVER_FADE_FRAMES * q) * q

\* screensaver_init(): allocates the zeroed state once; a failed calloc
\* leaves ss NULL
screensaver_init(s, calloc_ok) ==
    IF s.allocated THEN s
    ELSE IF ~calloc_ok THEN s
    ELSE [allocated |-> TRUE, active |-> FALSE, fading_in |-> FALSE,
          fading_out |-> FALSE, fade_alpha |-> 0]

\* screensaver_deinit()
screensaver_deinit(s) == IF s.allocated THEN NoSaver ELSE s

\* starts again while the fade-out is running
MutantStartDuringFade(s, calloc_ok) ==
    LET t == IF ~s.allocated THEN screensaver_init(s, calloc_ok) ELSE s IN
    IF ~t.allocated THEN [ss |-> t, halted |-> TRUE]
    ELSE IF ~t.fading_in
    THEN [ss |-> [t EXCEPT !.active = TRUE, !.fading_in = TRUE,
                           !.fading_out = FALSE],
          halted |-> FALSE]
    ELSE [ss |-> t, halted |-> FALSE]

\* screensaver_start(): result [ss, halted]. With ss still NULL after
\* screensaver_init the read of ss->active is an access through a NULL
\* pointer; address 0 is unmapped on the console, so the access raises an
\* exception and the program stops there.
screensaver_start(s, calloc_ok) ==
    LET t == IF ~s.allocated THEN screensaver_init(s, calloc_ok) ELSE s IN
    IF ~t.allocated THEN [ss |-> t, halted |-> TRUE]
    ELSE IF ~t.active /\ ~t.fading_in
    THEN [ss |-> [t EXCEPT !.active = TRUE, !.fading_in = TRUE,
                           !.fading_out = FALSE],
          halted |-> FALSE]
    ELSE [ss |-> t, halted |-> FALSE]

\* requests the fade-out without ending the fade-in
MutantStopKeepsFadeIn(s) ==
    IF ~s.allocated \/ ~s.active THEN s
    ELSE IF ~s.fading_out THEN [s EXCEPT !.fading_out = TRUE]
    ELSE s

\* screensaver_stop()
screensaver_stop(s) ==
    IF ~s.allocated \/ ~s.active THEN s
    ELSE IF ~s.fading_out
    THEN [s EXCEPT !.fading_out = TRUE, !.fading_in = FALSE]
    ELSE s

\* screensaver_update(idle_seconds); the particles are not modelled
screensaver_update(s, idle_seconds) ==
    IF ~s.allocated THEN s
    ELSE
      LET t == IF ~s.active /\ idle_seconds >= SCREENSAVER_TIMEOUT_SECONDS
               THEN screensaver_start(s, TRUE).ss
               ELSE s
      IN
      IF ~t.active THEN t
      ELSE IF t.fading_in
      THEN LET a == FloatRound(t.fade_alpha + fade_step) IN
           IF a >= FloatOne
           THEN [t EXCEPT !.fade_alpha = FloatOne, !.fading_in = FALSE]
           ELSE [t EXCEPT !.fade_alpha = a]
      ELSE IF t.fading_out
      THEN IF t.fade_alpha - fade_step <= 0
           THEN [t EXCEPT !.fade_alpha = 0, !.fading_out = FALSE,
                          !.active = FALSE]
           ELSE [t EXCEPT !.fade_alpha = FloatRound(t.fade_alpha - fade_step)]
      ELSE t

\* screensaver_is_active()
screensaver_is_active(s) == s.allocated /\ s.active

\* screensaver_is_fully_active()
screensaver_is_fully_active(s) ==
    s.allocated /\ s.active /\ ~s.fading_in /\ ~s.fading_out

\* idle times handed to screensaver_update, in seconds
IdleSeconds ==
    {0, SCREENSAVER_TIMEOUT_SECONDS - 1, SCREENSAVER_TIMEOUT_SECONDS}

InitSaver ==
    /\ fs = EmptyFs
    /\ IdleJournal
    /\ IdleRecovery
    /\ IdleImage
    /\ IdleSelect
    /\ IdleSaver
    /\ IdleTransfer
    /\ IdleCatalog

SaverUnchanged ==
    UNCHANGED <<journalVars, recoveryVars, imageVars, transferVars,
                catalogVars, selectVars>>

\* a request is on record and the screensaver has not become inactive since
FadeOutPending == ss_hist.stop_requested /\ ss.active

ScreensaverInit(calloc_ok) ==
    /\ ~ss_hist.halted
    /\ ss' = screensaver_init(ss, calloc_ok)
    /\ ss_hist' = ss_hist
    /\ SaverUnchanged

ScreensaverDeinit ==
    /\ ~ss_hist.halted
    /\ ss' = screensaver_deinit(ss)
    /\ ss_hist' = NoSaverHist
    /\ SaverUnchanged

ScreensaverStart(calloc_ok) ==
    /\ ~ss_hist.halted
    /\ LET r == screensaver_start(ss, calloc_ok) IN
       /\ ss' = r.ss
       /\ ss_hist' =
             IF r.halted THEN [ss_hist EXCEPT !.halted = TRUE]
             ELSE IF ~ss.active /\ r.ss.active THEN NoSaverHist
             ELSE IF FadeOutPending
             THEN [ss_hist EXCEPT !.start_during_fade = TRUE]
             ELSE ss_hist
    /\ SaverUnchanged

ScreensaverStop ==
    /\ ~ss_hist.halted
    /\ ss' = screensaver_stop(ss)
    /\ ss_hist' =
          IF ss.active /\ ~ss_hist.stop_requested
          THEN [NoSaverHist EXCEPT !.stop_requested = TRUE,
                                   !.alpha_at_stop = ss.fade_alpha]
          ELSE ss_hist
    /\ SaverUnchanged

ScreensaverUpdate(idle_seconds) ==
    /\ ~ss_hist.halted
    /\ ss' = screensaver_update(ss, idle_seconds)
    /\ ss_hist' =
          IF FadeOutPending
          THEN [ss_hist EXCEPT
                  !.updates = Min(@ + 1, SCREENSAVER_FADE_FRAMES + 1),
                  !.timeout_during_fade =
                      @ \/ idle_seconds >= SCREENSAVER_TIMEOUT_SECONDS]
          ELSE IF ~ss.active /\ ss'.active THEN NoSaverHist
          ELSE ss_hist
    /\ SaverUnchanged

NextSaver ==
    \/ \E calloc_ok \in BOOLEAN : ScreensaverInit(calloc_ok)
    \/ ScreensaverDeinit
    \/ \E calloc_ok \in BOOLEAN : ScreensaverStart(calloc_ok)
    \/ ScreensaverStop
    \/ \E idle_seconds \in IdleSeconds : ScreensaverUpdate(idle_seconds)

SpecSaver == InitSaver /\ [][NextSaver]_vars

-----------------------------------------------------------------------------
(* Screensaver properties (specification SpecSaver) *)

\* C39: after any sequence of screensaver calls the two fade flags are never
\* both set, an inactive screensaver has neither flag set and fade level 0,
\* and screensaver_is_fully_active holds only at fade level 1.0.
C39_SaverStateInvariant ==
    /\ ~(ss.fading_in /\ ss.fading_out)
    /\ ~screensaver_is_active(ss) =>
          /\ ~ss.fading_in
          /\ ~ss.fading_out
          /\ ss.fade_alpha = 0
    /\ screensaver_is_fully_active(ss) => ss.fade_alpha = FloatOne

\* the fade-in was cut short by a stop and the fade-out is under way
C39_Witness ==
    /\ screensaver_is_active(ss)
    /\ ss.fading_out
    /\ ss_hist.alpha_at_stop < FloatOne
    /\ 0 < ss.fade_alpha
    /\ ss.fade_alpha < ss_hist.alpha_at_stop

\* C40: after screensaver_stop on an active screensaver, as long as the
\* screensaver is still active it is fading out and fewer than
\* SCREENSAVER_FADE_FRAMES updates have run since the request, whatever
\* screensaver_start calls and idle timeouts arrived in between: the
\* SCREENSAVER_FADE_FRAMES-th update at the latest makes it inactive.
C40_StopCompletes ==
    FadeOutPending =>
        /\ ss.fading_out
        /\ ~ss.fading_in
        /\ ss_hist.updates < SCREENSAVER_FADE_FRAMES
        /\ ss.fade_alpha <= ss_hist.alpha_at_stop

\* a fade-out from fully opaque became inactive at the last allowed update,
\* with a start request and an idle timeout arriving during it
C40_Witness ==
    /\ ss_hist.stop_requested
    /\ ~screensaver_is_active(ss)
    /\ ss_hist.alpha_at_stop = FloatOne
    /\ ss_hist.updates = SCREENSAVER_FADE_FRAMES
    /\ ss_hist.start_during_fade
    /\ ss_hist.timeout_during_fade

=============================================================================
